---- MODULE Spec2Model ----
(***************************************************************************)
(* A model of the minipbrt parser (src/minipbrt.cpp): the tokenizer's      *)
(* recognizers, the directive dispatcher, the parameter parser, the        *)
(* transform and attribute stacks and the scene-building handlers.         *)
(*                                                                         *)
(* Input files are modelled as sequences of lexemes.  A lexeme is a        *)
(* double-quote character, a bracket, a numeric literal or a word; white   *)
(* space between lexemes is implicit.  A cursor (m_pos, m_end) is an index *)
(* into the lexeme sequence of the statement being parsed: index i stands  *)
(* for "at the first character of lexeme i".  The file is revealed one     *)
(* statement at a time: the lexemes of a statement are followed by an end  *)
(* marker that is either the end of the file (the terminating NUL) or the  *)
(* directive keyword of the following statement.  Files fit in one buffer, *)
(* so the end of the buffer is the end of the file; the one exception is a *)
(* top-level file whose first buffer load holds no safe place to end the   *)
(* buffer (NOSAFE).                                                        *)
(***************************************************************************)
EXTENDS Integers, Sequences, FiniteSets, TLC

(***************************************************************************)
(* Bounds of the model.                                                    *)
(***************************************************************************)
\* The largest stack index used in place of kMaxTransformStackEntry and
\* kMaxAttributeStackEntry (127 in the source): the stacks of the model hold
\* MaxStackEntry + 1 entries.
MaxStackEntry == 2

(***************************************************************************)
(* Program constants.                                                      *)
(***************************************************************************)
\* 0xFFFFFFFF in the source.  The model checker's integers are 32-bit signed,
\* so handles are 31 bits wide here and the all-ones handle is 2^31 - 1.
kInvalidIndex == 2147483647

\* The element of a one-element set.  The({e : x \in {v}}) is e with x bound
\* to the value of v, which is computed once.
The(S) == CHOOSE v \in S : TRUE

(***************************************************************************)
(* Lexemes.                                                                *)
(***************************************************************************)
Q      == [k |-> "q",   v |-> ""]      \* a double-quote character
LB     == [k |-> "lb",  v |-> ""]      \* [
RB     == [k |-> "rb",  v |-> ""]      \* ]
NUM    == [k |-> "num", v |-> "1"]     \* a numeric literal, here 1
W(s)   == [k |-> "w",   v |-> s]       \* a word: letters, digits, underscores
LONG   == [k |-> "w",   v |-> "LONG"]  \* a word of more than kTempBufferCapacity letters
EOF    == [k |-> "eof", v |-> ""]      \* the NUL that ends the buffer at end of file
NEXT   == [k |-> "next", v |-> ""]     \* the directive keyword of the following statement
NOSAFE == [k |-> "nosafe", v |-> ""]   \* a buffer capacity of characters, none a safe buffer end

\* The lexemes of a quoted string holding the word s (of "" when s is empty).
Str(s) == IF s = "" THEN <<Q, Q>> ELSE <<Q, W(s), Q>>
\* The lexemes of a parameter declaration such as "float radius".
Decl(type, name) == <<Q, W(type), W(name), Q>>

(***************************************************************************)
(* The Error object and the tokenizer.                                     *)
(*                                                                         *)
(* A parse state st threads through the recognizers and the parameter      *)
(* parser of one statement:                                                *)
(*   L       the lexemes of the statement, then the end marker             *)
(*   pos,end m_pos and m_end, indexes into L                               *)
(*   files   m_fileData[0..m_includeDepth]: each open file's filename and  *)
(*           reportEOF flag; m_includeDepth is Len(files) - 1              *)
(*   maxDepth m_maxIncludeDepth                                            *)
(*   error   m_error (NullError when m_error == nullptr)                   *)
(*   raised  history: the error the first set_error call asked to record   *)
(*   late    history: the number of set_error calls made with an error     *)
(*           already recorded                                              *)
(*   params  m_params, with the value bytes of m_temp held in each entry   *)
(*   spd     the content of the spectrum file a parameter may name         *)
(***************************************************************************)
NullError == [filename |-> "", offset |-> 0, message |-> "", line |-> 0, column |-> 0]

\* Tokenizer::cursor_location for a file without newlines: the first branch
\* counts no '\n' up to the cursor, so line = 1 and col = posOffset - (-1).
\* Offsets are counted in lexemes from the start of the statement.
cursor_location(st) ==
  [line |-> 1, column |-> (st.pos - 1) + 1]

\* The Error a set_error call builds at the cursor.
NewError(st, msg) ==
  [filename |-> st.files[Len(st.files)].filename, offset |-> st.pos - 1, message |-> msg,
   line |-> cursor_location(st).line, column |-> cursor_location(st).column]

has_error(st) == st.error # NullError

\* A set_error without the has_error() early return: each call overwrites.
set_error_overwrite(st, msg) ==
  IF msg = "" THEN st
  ELSE [st EXCEPT !.error = NewError(st, msg),
                  !.raised = IF st.raised = NullError THEN NewError(st, msg) ELSE @,
                  !.late = IF has_error(st) THEN @ + 1 ELSE @]

\* Tokenizer::set_error.  An empty message (len <= 0) records nothing.
set_error(st, msg) ==
  IF has_error(st) THEN [st EXCEPT !.late = @ + 1]
  ELSE IF msg = "" THEN st
  ELSE [st EXCEPT !.error = NewError(st, msg),
                  !.raised = IF st.raised = NullError THEN NewError(st, msg) ELSE @]

Peek(st) == st.L[st.pos]

\* Tokenizer::advance: m_pos = m_end, skip white space; the result is
\* *m_pos != '\0'.
\* Tokenizer::FileData.  more is the rest of the file abstracted to one bit,
\* read when an included file above it ends: the file goes on with a
\* directive keyword after the point where it included another file.
FileData(filename, reportEOF, more) ==
  [filename |-> filename, reportEOF |-> reportEOF, more |-> more]

m_includeDepth(st) == Len(st.files) - 1

\* refill_buffer at the end of an included file: pop_file, and again while
\* the file returned to is at its end too.  Result: [files, resumed].
RECURSIVE Unwind(_)
Unwind(files) ==
  IF Len(files) = 1 THEN [files |-> files, resumed |-> FALSE]
  ELSE IF files[Len(files)].more
  THEN [files |-> SubSeq(files, 1, Len(files) - 1), resumed |-> TRUE]
  ELSE Unwind(SubSeq(files, 1, Len(files) - 1))

\* Tokenizer::advance: m_pos = m_end, skip white space and, at the end of the
\* buffer, refill_buffer; the result (advance_ok) is *m_pos != '\0'.  At the
\* end of an included file refill_buffer pops it and reading goes on in the
\* parent; at the end of the top-level file, or of a file pushed with
\* reportEOF, the cursor stays on the NUL.
advance(st) ==
  IF st.L[st.end].k = "eof" /\ m_includeDepth(st) > 0 /\ ~st.files[Len(st.files)].reportEOF
  THEN The({ [st EXCEPT !.pos = st.end, !.files = u.files,
                        !.L[st.end] = IF u.resumed THEN NEXT ELSE EOF]
             : u \in {Unwind(st.files)} })
  ELSE [st EXCEPT !.pos = st.end]

advance_ok(st) == Peek(advance(st)).k # "eof"

\* The index of the first double quote after index i, 0 when there is none.
NextQuote(L, i) ==
  IF \E j \in (i + 1)..Len(L) : L[j].k = "q"
  THEN CHOOSE j \in (i + 1)..Len(L) : L[j].k = "q" /\ \A h \in (i + 1)..(j - 1) : L[h].k # "q"
  ELSE 0

\* The cursor after a scan that ran to the end of the buffer: the rest of
\* the file holds nothing the scan stopped at, so the cursor is at its end.
AtBufEnd(st) ==
  [st EXCEPT !.L = [st.L EXCEPT ![Len(st.L)] = EOF], !.end = Len(st.L)]

\* The text of a string literal whose content is the lexemes c.
RECURSIVE StrVal(_)
StrVal(c) ==
  IF c = <<>> THEN ""
  ELSE IF Len(c) = 1 THEN c[1].v
  ELSE c[1].v \o " " \o StrVal(Tail(c))

IsLong(c) == \E i \in 1..Len(c) : c[i] = LONG

\* Tokenizer::string_literal(buf, bufLen); withBuf says buf is given (then
\* bufLen is kTempBufferCapacity).  Result: [st, ok, val].
string_literal(st, withBuf) ==
  IF Peek(st).k # "q" THEN [st |-> [st EXCEPT !.end = st.pos], ok |-> FALSE, val |-> ""]
  ELSE The({
    IF j = 0
    THEN [st |-> set_error(AtBufEnd(st), "String literal is not terminated"),
          ok |-> FALSE, val |-> ""]
    ELSE IF withBuf /\ IsLong(SubSeq(st.L, st.pos + 1, j - 1))
    THEN [st |-> set_error([st EXCEPT !.end = j + 1],
                           "String literal is too large for the provided output buffer"),
          ok |-> FALSE, val |-> ""]
    ELSE [st |-> [st EXCEPT !.end = j + 1], ok |-> TRUE,
          val |-> StrVal(SubSeq(st.L, st.pos + 1, j - 1))]
    : j \in {NextQuote(st.L, st.pos)} })

\* minipbrt::int_literal / float_literal through Tokenizer::int_literal and
\* Tokenizer::float_literal: m_end = m_pos, then the literal is matched.
num_literal(st) ==
  IF Peek(st).k = "num"
  THEN [st |-> [st EXCEPT !.end = st.pos + 1], ok |-> TRUE, val |-> Peek(st).v]
  ELSE [st |-> [st EXCEPT !.end = st.pos], ok |-> FALSE, val |-> ""]

\* Tokenizer::match_symbol for the one-character symbols [ ] and ".
match_symbol(st, kind) == Peek(st).k = kind
accept_symbol(st) == [st EXCEPT !.end = st.pos + 1]

\* Tokenizer::identifier(buf, 512).
identifier(st) ==
  IF Peek(st).k \notin {"w", "next"}
  THEN [st |-> set_error([st EXCEPT !.end = st.pos], "Not an identifier"),
        ok |-> FALSE, val |-> ""]
  ELSE IF Peek(st) = LONG
  THEN [st |-> set_error([st EXCEPT !.end = st.pos + 1],
                         "Identifier is too large to store in the output buffer"),
        ok |-> FALSE, val |-> ""]
  ELSE [st |-> [st EXCEPT !.end = st.pos + 1], ok |-> TRUE, val |-> Peek(st).v]

\* The index of v in the null-terminated array values, -1 when absent
\* (find_string_in_array; the first match wins).
IndexOf(v, values) ==
  IF \E i \in 1..Len(values) : values[i] = v
  THEN (CHOOSE i \in 1..Len(values) : values[i] = v /\ \A h \in 1..(i - 1) : values[h] # v) - 1
  ELSE -1

\* Tokenizer::which_string_literal(values, &index).  Result: [st, ok, index].
which_string_literal(st, values) ==
  IF Peek(st).k # "q" THEN [st |-> st, ok |-> FALSE, index |-> -1]
  ELSE The({
    IF j = 0 THEN [st |-> AtBufEnd(st), ok |-> FALSE, index |-> -1]
    ELSE The({
      IF Len(c) > 1 \/ (Len(c) = 1 /\ c[1].k # "w") \/ IndexOf(StrVal(c), values) = -1
      THEN [st |-> [st EXCEPT !.end = j + 1], ok |-> FALSE, index |-> -1]
      ELSE [st |-> [st EXCEPT !.end = j + 1], ok |-> TRUE, index |-> IndexOf(StrVal(c), values)]
      : c \in {SubSeq(st.L, st.pos + 1, j - 1)} })
    : j \in {NextQuote(st.L, st.pos)} })

\* Tokenizer::which_keyword(values, &index) for a word that shares no
\* prefix with the last value tried.
which_keyword(st, values) ==
  IF Peek(st).k = "w" /\ IndexOf(Peek(st).v, values) # -1
  THEN [st |-> [st EXCEPT !.end = st.pos + 1], ok |-> TRUE, index |-> IndexOf(Peek(st).v, values)]
  ELSE [st |-> [st EXCEPT !.end = st.pos], ok |-> FALSE, index |-> -1]

(***************************************************************************)
(* The directive table and the parameter types.                            *)
(***************************************************************************)
kActiveTransformValues == <<"StartTime", "EndTime", "All">>
kShapeTypes == <<"cone", "curve", "cylinder", "disk", "hyperboloid", "paraboloid", "sphere",
                 "trianglemesh", "heightfield", "loopsubdiv", "nurbs", "plymesh">>
kAreaLightTypes == <<"diffuse">>
kLightTypes == <<"distant", "goniometric", "infinite", "point", "projection", "spot">>
kMaterialTypes == <<"disney", "fourier", "glass", "hair", "kdsubsurface", "matte", "metal",
                    "mirror", "mix", "none", "plastic", "substrate", "subsurface",
                    "translucent", "uber", "">>
kTextureDataTypes == <<"float", "spectrum", "color">>
kTextureTypes == <<"bilerp", "checkerboard", "checkerboard", "constant", "dots", "fbm",
                   "imagemap", "marble", "mix", "scale", "uv", "windy", "wrinkled", "ptex">>
kAccelTypes == <<"bvh", "kdtree">>
kCameraTypes == <<"perspective", "orthographic", "environment", "realistic">>
kFilmTypes == <<"image">>
kIntegratorTypes == <<"bdpt", "directlighting", "mlt", "path", "sppm", "whitted", "volpath",
                      "ambientocclusion">>
kPixelFilterTypes == <<"box", "gaussian", "mitchell", "sinc", "triangle">>
kSamplerTypes == <<"02sequence", "lowdiscrepancy", "halton", "maxmindist", "random", "sobol",
                   "stratified">>
kMediumTypes == <<"homogeneous", "heterogeneous">>

Stmt(name, pat, pre, world, e0, e1, d0, d1) ==
  [name |-> name, argPattern |-> pat, inPreamble |-> pre, inWorld |-> world,
   enum0 |-> e0, enum1 |-> e1, enum0default |-> d0, enum1default |-> d1]

F3  == <<"f", "f", "f">>
F16 == F3 \o F3 \o F3 \o F3 \o <<"f", "f", "f", "f">>

kStatements == <<
  Stmt("Identity",           <<>>,               TRUE,  TRUE,  <<>>, <<>>, -1, -1),
  Stmt("Translate",          F3,                 TRUE,  TRUE,  <<>>, <<>>, -1, -1),
  Stmt("Scale",              F3,                 TRUE,  TRUE,  <<>>, <<>>, -1, -1),
  Stmt("Rotate",             F3 \o <<"f">>,      TRUE,  TRUE,  <<>>, <<>>, -1, -1),
  Stmt("LookAt",             F3 \o F3 \o F3,     TRUE,  TRUE,  <<>>, <<>>, -1, -1),
  Stmt("CoordinateSystem",   <<"s">>,            TRUE,  TRUE,  <<>>, <<>>, -1, -1),
  Stmt("CoordSysTransform",  <<"s">>,            TRUE,  TRUE,  <<>>, <<>>, -1, -1),
  Stmt("Transform",          F16,                TRUE,  TRUE,  <<>>, <<>>, -1, -1),
  Stmt("ConcatTransform",    F16,                TRUE,  TRUE,  <<>>, <<>>, -1, -1),
  Stmt("ActiveTransform",    <<"k">>,            TRUE,  TRUE,  kActiveTransformValues, <<>>, -1, -1),
  Stmt("MakeNamedMedium",    <<"s">>,            TRUE,  TRUE,  <<>>, <<>>, -1, -1),
  Stmt("MediumInterface",    <<"s", "s">>,       TRUE,  TRUE,  <<>>, <<>>, -1, -1),
  Stmt("Include",            <<"s">>,            TRUE,  TRUE,  <<>>, <<>>, -1, -1),
  Stmt("AttributeBegin",     <<>>,               FALSE, TRUE,  <<>>, <<>>, -1, -1),
  Stmt("AttributeEnd",       <<>>,               FALSE, TRUE,  <<>>, <<>>, -1, -1),
  Stmt("Shape",              <<"e">>,            FALSE, TRUE,  kShapeTypes, <<>>, -1, -1),
  Stmt("AreaLightSource",    <<"e">>,            FALSE, TRUE,  kAreaLightTypes, <<>>, -1, -1),
  Stmt("LightSource",        <<"e">>,            FALSE, TRUE,  kLightTypes, <<>>, -1, -1),
  Stmt("Material",           <<"e">>,            FALSE, TRUE,  kMaterialTypes, <<>>, 5, -1),
  Stmt("MakeNamedMaterial",  <<"s">>,            FALSE, TRUE,  <<>>, <<>>, -1, -1),
  Stmt("NamedMaterial",      <<"s">>,            FALSE, TRUE,  <<>>, <<>>, -1, -1),
  Stmt("ObjectBegin",        <<"s">>,            FALSE, TRUE,  <<>>, <<>>, -1, -1),
  Stmt("ObjectEnd",          <<>>,               FALSE, TRUE,  <<>>, <<>>, -1, -1),
  Stmt("ObjectInstance",     <<"s">>,            FALSE, TRUE,  <<>>, <<>>, -1, -1),
  Stmt("Texture",            <<"s", "e", "e">>,  FALSE, TRUE,  kTextureDataTypes, kTextureTypes, -1, -1),
  Stmt("TransformBegin",     <<>>,               FALSE, TRUE,  <<>>, <<>>, -1, -1),
  Stmt("TransformEnd",       <<>>,               FALSE, TRUE,  <<>>, <<>>, -1, -1),
  Stmt("ReverseOrientation", <<>>,               FALSE, TRUE,  <<>>, <<>>, -1, -1),
  Stmt("WorldEnd",           <<>>,               FALSE, TRUE,  <<>>, <<>>, -1, -1),
  Stmt("Accelerator",        <<"e">>,            TRUE,  FALSE, kAccelTypes, <<>>, -1, -1),
  Stmt("Camera",             <<"e">>,            TRUE,  FALSE, kCameraTypes, <<>>, -1, -1),
  Stmt("Film",               <<"e">>,            TRUE,  FALSE, kFilmTypes, <<>>, -1, -1),
  Stmt("Integrator",         <<"e">>,            TRUE,  FALSE, kIntegratorTypes, <<>>, -1, -1),
  Stmt("PixelFilter",        <<"e">>,            TRUE,  FALSE, kPixelFilterTypes, <<>>, -1, -1),
  Stmt("Sampler",            <<"e">>,            TRUE,  FALSE, kSamplerTypes, <<>>, -1, -1),
  Stmt("TransformTimes",     <<"f", "f">>,       TRUE,  FALSE, <<>>, <<>>, -1, -1),
  Stmt("WorldBegin",         <<>>,               TRUE,  FALSE, <<>>, <<>>, -1, -1) >>

kNumStatements == Len(kStatements)

StatementNames == {kStatements[i].name : i \in 1..kNumStatements}

\* The 0-based index of the directive called name.
StatementIndex(name) ==
  (CHOOSE i \in 1..kNumStatements : kStatements[i].name = name) - 1

PType(type, name, n, alias) == [type |-> type, name |-> name, numComponents |-> n, alias |-> alias]

kParamTypes == <<
  PType("Bool",      "bool",      1, ""),
  PType("Int",       "integer",   1, ""),
  PType("Float",     "float",     1, ""),
  PType("Point2",    "point2",    2, ""),
  PType("Point3",    "point3",    3, "point"),
  PType("Vector2",   "vector2",   2, ""),
  PType("Vector3",   "vector3",   3, "vector"),
  PType("Normal3",   "normal3",   3, "normal"),
  PType("RGB",       "rgb",       3, "color"),
  PType("XYZ",       "xyz",       3, ""),
  PType("Blackbody", "blackbody", 2, ""),
  PType("Samples",   "spectrum",  2, ""),
  PType("String",    "string",    1, ""),
  PType("Texture",   "texture",   1, "") >>

kSpectrumTypes == {"RGB", "XYZ", "Blackbody", "Samples"}

\* Tokenizer::which_directive.  Result: [st, ok, index] (index 0-based).
which_directive(st) ==
  IF Peek(st).k = "w" /\ Peek(st).v \in StatementNames
  THEN [st |-> [st EXCEPT !.end = st.pos + 1], ok |-> TRUE, index |-> StatementIndex(Peek(st).v)]
  ELSE [st |-> st, ok |-> FALSE, index |-> kInvalidIndex]

\* Tokenizer::which_type.  Result: [st, ok, index] (index 1-based into kParamTypes).
which_type(st) ==
  The({
    IF hit # {}
    THEN [st |-> [st EXCEPT !.end = st.pos + 1], ok |-> TRUE,
          index |-> CHOOSE i \in hit : \A h \in hit : i <= h]
    ELSE [st |-> st, ok |-> FALSE, index |-> 0]
    : hit \in {{i \in 1..Len(kParamTypes) :
                  /\ Peek(st).k = "w"
                  /\ \/ kParamTypes[i].name = Peek(st).v
                     \/ kParamTypes[i].alias # "" /\ kParamTypes[i].alias = Peek(st).v}} })

ParamInfo(name, type, count, val) == [name |-> name, type |-> type, count |-> count, val |-> val]

push_param(st, p) == [st EXCEPT !.params = Append(@, p)]

(***************************************************************************)
(* Parser::parse_args                                                      *)
(***************************************************************************)
RECURSIVE parse_args_loop(_, _, _, _)
parse_args_loop(st, statement, i, parsedEnum) ==
  IF i > Len(statement.argPattern) THEN [st |-> st, ok |-> TRUE]
  ELSE The({
    IF Peek(s0).k = "eof" THEN [st |-> s0, ok |-> FALSE]
    ELSE IF statement.argPattern[i] \in {"e", "k"} THEN
      The({
        parse_args_loop(
          push_param(r.st, ParamInfo("", "Int", 1,
            <<IF r.ok THEN r.index
              ELSE IF parsedEnum THEN statement.enum1default ELSE statement.enum0default>>)),
          statement, i + 1, TRUE)
        : r \in {IF statement.argPattern[i] = "e"
                 THEN which_string_literal(s0, IF parsedEnum THEN statement.enum1 ELSE statement.enum0)
                 ELSE which_keyword(s0, IF parsedEnum THEN statement.enum1 ELSE statement.enum0)} })
    ELSE IF statement.argPattern[i] = "f" THEN
      The({
        IF r.ok THEN parse_args_loop(push_param(r.st, ParamInfo("", "Float", 1, <<r.val>>)),
                                     statement, i + 1, parsedEnum)
        ELSE [st |-> r.st, ok |-> FALSE]
        : r \in {num_literal(s0)} })
    ELSE \* 's'
      The({
        IF r.ok THEN parse_args_loop(push_param(r.st, ParamInfo("", "String", 1, <<r.val>>)),
                                     statement, i + 1, parsedEnum)
        ELSE [st |-> r.st, ok |-> FALSE]
        : r \in {string_literal(s0, FALSE)} })
    : s0 \in {advance(st)} })

parse_args(st, statement) ==
  The({
    LET bracketed == match_symbol(s0, "lb") IN
    The({
      The({
        IF r.ok /\ (bracketed => match_symbol(e, "rb"))
        THEN [st |-> IF bracketed THEN accept_symbol(e) ELSE r.st, ok |-> TRUE]
        ELSE [st |-> set_error(IF r.ok THEN e ELSE r.st,
                               "Failed to parse required args for " \o statement.name),
              ok |-> FALSE]
        : e \in {IF r.ok /\ bracketed THEN advance(r.st) ELSE r.st} })
      : r \in {parse_args_loop(IF bracketed THEN accept_symbol(s0) ELSE s0, statement, 1, FALSE)} })
    : s0 \in {advance(st)} })

(***************************************************************************)
(* Parser::parse_ints, parse_floats, parse_strings, parse_bools,           *)
(* parse_spectrum.  Result: [st, ok, vals]; count is Len(vals).            *)
(***************************************************************************)
RECURSIVE parse_nums_loop(_, _)
parse_nums_loop(st, vals) ==
  IF match_symbol(st, "rb") THEN [st |-> accept_symbol(st), ok |-> TRUE, vals |-> vals]
  ELSE The({
    IF ~r.ok THEN [st |-> set_error(r.st, "Expected int or ']'"), ok |-> FALSE, vals |-> vals]
    ELSE The({ parse_nums_loop(s1, v1) : s1 \in {advance(r.st)}, v1 \in {Append(vals, r.val)} })
    : r \in {num_literal(st)} })

\* parse_ints and parse_floats have the same shape and the same message.
parse_nums(st) ==
  IF match_symbol(st, "lb")
  THEN The({ parse_nums_loop(s1, <<>>) : s1 \in {advance(accept_symbol(st))} })
  ELSE The({
    IF ~r.ok THEN [st |-> set_error(r.st, "Expected int or ']'"), ok |-> FALSE, vals |-> <<>>]
    ELSE [st |-> r.st, ok |-> TRUE, vals |-> <<r.val>>]
    : r \in {num_literal(st)} })

parse_ints(st) == parse_nums(st)

parse_floats(st) == parse_nums(st)

RECURSIVE parse_strings_loop(_, _)
parse_strings_loop(st, vals) ==
  The({
    IF Peek(s0).k = "eof"
    THEN [st |-> set_error(s0, "Unclosed '['"), ok |-> FALSE, vals |-> vals]
    ELSE IF match_symbol(s0, "rb") THEN [st |-> accept_symbol(s0), ok |-> TRUE, vals |-> vals]
    ELSE The({
      IF ~r.ok
      THEN [st |-> set_error(r.st, "Failed to parse string literal"), ok |-> FALSE, vals |-> vals]
      ELSE The({ parse_strings_loop(r.st, v1) : v1 \in {Append(vals, r.val)} })
      : r \in {string_literal(s0, FALSE)} })
    : s0 \in {advance(st)} })

parse_strings(st) ==
  IF match_symbol(st, "lb")
  THEN The({ parse_strings_loop(s1, <<>>) : s1 \in {accept_symbol(st)} })
  ELSE The({
    IF ~r.ok
    THEN [st |-> set_error(r.st, "Failed to parse string literal"), ok |-> FALSE, vals |-> <<>>]
    ELSE [st |-> r.st, ok |-> TRUE, vals |-> <<r.val>>]
    : r \in {string_literal(st, FALSE)} })

boolValues == <<"false", "true">>

RECURSIVE parse_bools_loop(_, _)
parse_bools_loop(st, vals) ==
  The({
    IF Peek(s0).k = "eof"
    THEN [st |-> set_error(s0, "Unclosed '['"), ok |-> FALSE, vals |-> vals]
    ELSE IF match_symbol(s0, "rb") THEN [st |-> accept_symbol(s0), ok |-> TRUE, vals |-> vals]
    ELSE The({
      IF ~r.ok
      THEN [st |-> set_error(r.st, "Invalid value for boolean parameter"), ok |-> FALSE, vals |-> vals]
      ELSE The({ parse_bools_loop(r.st, v1) : v1 \in {Append(vals, r.index = 1)} })
      : r \in {which_string_literal(s0, boolValues)} })
    : s0 \in {advance(st)} })

parse_bools(st) ==
  IF match_symbol(st, "lb")
  THEN The({ parse_bools_loop(s1, <<>>) : s1 \in {accept_symbol(st)} })
  ELSE The({
    IF ~r.ok
    THEN [st |-> set_error(r.st, "Invalid value for boolean parameter"), ok |-> FALSE, vals |-> <<>>]
    ELSE [st |-> r.st, ok |-> TRUE, vals |-> <<r.index = 1>>]
    : r \in {which_string_literal(st, boolValues)} })

\* The (wavelength, value) pairs read while advance() succeeds; inFile says
\* the pairs come from a pushed spectrum file, where no ']' ends them.
RECURSIVE parse_pairs_loop(_, _, _)
parse_pairs_loop(st, vals, inFile) ==
  The({
    IF Peek(s0).k = "eof" THEN [st |-> s0, ok |-> TRUE, vals |-> vals]
    ELSE IF ~inFile /\ match_symbol(s0, "rb")
    THEN [st |-> accept_symbol(s0), ok |-> TRUE, vals |-> vals]
    ELSE The({
      IF ~a.ok
      THEN [st |-> set_error(a.st, "Failed to parse sampled spectrum data"), ok |-> FALSE, vals |-> vals]
      ELSE The({
        IF Peek(s1).k = "eof"
        THEN [st |-> set_error(s1, "Failed to parse sampled spectrum data"), ok |-> FALSE, vals |-> vals]
        ELSE The({
          IF ~b.ok
          THEN [st |-> set_error(b.st, "Failed to parse sampled spectrum data"),
                ok |-> FALSE, vals |-> vals]
          ELSE The({ parse_pairs_loop(b.st, v1, inFile) : v1 \in {vals \o <<a.val, b.val>>} })
          : b \in {num_literal(s1)} })
        : s1 \in {advance(a.st)} })
      : a \in {num_literal(s0)} })
    : s0 \in {advance(st)} })

\* Tokenizer::push_file(filename, reportEOF).  content is the pushed file as
\* the first refill_buffer loads it, <<>> when the file cannot be opened;
\* more says a directive keyword follows the cursor in the current file.
\* Names are resolved against the directory of the top-level file, and the
\* files of the model are in that directory.  Result: [st, ok].
push_file(st, filename, reportEOF, content) ==
  IF m_includeDepth(st) = st.maxDepth
  THEN [st |-> set_error(st, "Maximum include depth exceeded"), ok |-> FALSE]
  ELSE IF content = <<>>
  THEN [st |-> set_error(st, "Failed to include " \o filename), ok |-> FALSE]
  ELSE [st |-> [st EXCEPT !.L = content, !.pos = 1, !.end = 1,
                          !.files = Append(@, FileData(filename, reportEOF, Peek(st).k = "next"))],
        ok |-> TRUE]

\* Tokenizer::pop_file back to the parent p (its lexemes and saved cursor).
pop_file(st, p) ==
  [st EXCEPT !.L = p.L, !.pos = p.end, !.end = p.end, !.files = SubSeq(@, 1, Len(@) - 1)]

\* The spectrum named by the file name f.val, read after the cursor s1.
parse_spectrum_file(s1, f) ==
  The({
    IF ~p.ok
    THEN [st |-> set_error(p.st, "Failed to open SPD file " \o f.val), ok |-> FALSE, vals |-> <<>>]
    ELSE The({
      IF ~r.ok THEN r
      ELSE [st |-> pop_file(r.st, s1), ok |-> TRUE, vals |-> r.vals]
      : r \in {parse_pairs_loop(p.st, <<>>, TRUE)} })
    : p \in {push_file(s1, f.val, TRUE, s1.spd)} })

parse_spectrum(st) ==
  LET bracketed == match_symbol(st, "lb") IN
  The({
    IF f.ok THEN
      The({
        IF bracketed /\ ~match_symbol(e, "rb")
        THEN [st |-> set_error(e, "Unmatched '['"), ok |-> FALSE, vals |-> <<>>]
        ELSE The({ parse_spectrum_file(s1, f)
                   : s1 \in {advance(IF bracketed THEN accept_symbol(e) ELSE f.st)} })
        : e \in {IF bracketed THEN advance(f.st) ELSE f.st} })
    ELSE IF ~bracketed
    THEN [st |-> set_error(f.st, "Expected a '[' or a filename"), ok |-> FALSE, vals |-> <<>>]
    ELSE parse_pairs_loop(f.st, <<>>, FALSE)
    : f \in {string_literal(IF bracketed THEN advance(accept_symbol(st)) ELSE st, TRUE)} })

(***************************************************************************)
(* Parser::parse_param and Parser::parse_params                            *)
(***************************************************************************)
\* The declaration "type name" of a parameter.  Result: [st, ok, index, name].
parse_param_decl(st) ==
  LET bad(s) == [st |-> s, ok |-> FALSE, index |-> 0, name |-> ""] IN
  IF ~match_symbol(st, "q") THEN bad(st)
  ELSE The({
    IF Peek(s0).k = "eof" THEN bad(s0)
    ELSE The({
      IF ~t.ok THEN bad(t.st)
      ELSE The({
        IF Peek(s1).k = "eof" THEN bad(s1)
        ELSE The({
          IF ~n.ok THEN bad(n.st)
          ELSE The({
            IF Peek(s2).k = "eof" \/ ~match_symbol(s2, "q") THEN bad(s2)
            ELSE [st |-> accept_symbol(s2), ok |-> TRUE, index |-> t.index, name |-> n.val]
            : s2 \in {advance(n.st)} })
          : n \in {identifier(s1)} })
        : s1 \in {advance(t.st)} })
      : t \in {which_type(s0)} })
    : s0 \in {advance(accept_symbol(st))} })

\* The values of a parameter whose declaration is d, read at the cursor s0.
parse_param_values(s0, d) ==
  LET paramTypeDecl == kParamTypes[d.index] IN
  The({
    IF r.ok /\ paramTypeDecl.numComponents > 1 /\ (Len(r.vals) % paramTypeDecl.numComponents) # 0
    THEN [st |-> set_error(r.st, "Wrong number of values for " \o d.name), ok |-> FALSE]
    ELSE IF r.ok
    THEN [st |-> push_param(r.st, ParamInfo(d.name, paramTypeDecl.type, Len(r.vals), r.vals)),
          ok |-> TRUE]
    ELSE [st |-> r.st, ok |-> FALSE]
    : r \in {IF paramTypeDecl.type = "Int" THEN parse_ints(s0)
             ELSE IF paramTypeDecl.type = "Samples" THEN parse_spectrum(s0)
             ELSE IF paramTypeDecl.type \in {"String", "Texture"} THEN parse_strings(s0)
             ELSE IF paramTypeDecl.type = "Bool" THEN parse_bools(s0)
             ELSE parse_floats(s0)} })

parse_param(st) ==
  The({
    IF ~d.ok THEN [st |-> set_error(d.st, "Failed to match a param declaration"), ok |-> FALSE]
    ELSE The({
      IF Peek(s0).k = "eof"
      THEN [st |-> set_error(s0, "Missing value for parameter " \o d.name), ok |-> FALSE]
      ELSE parse_param_values(s0, d)
      : s0 \in {advance(d.st)} })
    : d \in {parse_param_decl(st)} })

RECURSIVE parse_params(_)
parse_params(st) ==
  The({
    IF Peek(s0).k = "eof" \/ ~match_symbol(s0, "q") THEN [st |-> s0, ok |-> TRUE]
    ELSE The({
      IF ~r.ok THEN [st |-> set_error(r.st, "Failed to parse parameter"), ok |-> FALSE]
      ELSE parse_params(r.st)
      : r \in {parse_param(s0)} })
    : s0 \in {advance(st)} })

(***************************************************************************)
(* TransformStack.  A matrix is the list of the operations multiplied into *)
(* it since it was last the identity; Transform sets it to one operation.  *)
(***************************************************************************)
IdentityMat == <<>>

TransformStackInit ==
  [matrices |-> [i \in 1..(MaxStackEntry + 1) |-> <<IdentityMat, IdentityMat>>],
   active |-> <<TRUE, TRUE>>,
   entry |-> 0,
   coordinateSystems |-> {}]

\* matrices[entry] of the source, the stack being indexed from 1 here.
CurMatrices(t) == t.matrices[t.entry + 1]

TransformStack_push(t) ==
  IF t.entry = MaxStackEntry THEN [t |-> t, ok |-> FALSE]
  ELSE [t |-> [t EXCEPT !.matrices[t.entry + 2] = t.matrices[t.entry + 1], !.entry = @ + 1],
        ok |-> TRUE]

\* A pop that does not look at entry.
TransformStack_pop_unchecked(t) == [t |-> [t EXCEPT !.entry = @ - 1], ok |-> TRUE]

TransformStack_pop(t) ==
  IF t.entry = 0 THEN [t |-> t, ok |-> FALSE]
  ELSE [t |-> [t EXCEPT !.entry = @ - 1], ok |-> TRUE]

\* A clear that leaves the matrices of the first entry as they are.
TransformStack_clear_entry_only(t) == [t EXCEPT !.entry = 0]

TransformStack_clear(t) ==
  [t EXCEPT !.entry = 0, !.matrices[1] = <<IdentityMat, IdentityMat>>]

\* identity, translate, scale, rotate, lookAt, transform, concatTransform:
\* each matrix of the current entry whose slot is active gets its new value.
\* An update that does not look at the active flags.
TransformStack_apply_both(t, m1, m2) == [t EXCEPT !.matrices[t.entry + 1] = <<m1, m2>>]

TransformStack_apply(t, m1, m2) ==
  [t EXCEPT !.matrices[t.entry + 1] =
     <<IF t.active[1] THEN m1 ELSE @[1], IF t.active[2] THEN m2 ELSE @[2]>>]

TransformStack_identity(t) == TransformStack_apply(t, IdentityMat, IdentityMat)

TransformStack_multiply(t, op) ==
  TransformStack_apply(t, Append(CurMatrices(t)[1], op), Append(CurMatrices(t)[2], op))

TransformStack_transform(t, op) == TransformStack_apply(t, <<op>>, <<op>>)

TransformStack_coordinateSystem(t, name) ==
  [t EXCEPT !.coordinateSystems =
     {c \in @ : c.name # name} \cup {[name |-> name, m |-> CurMatrices(t)]}]

TransformStack_coordSysTransform(t, name) ==
  IF \E c \in t.coordinateSystems : c.name = name
  THEN [t |-> [t EXCEPT !.matrices[t.entry + 1] =
                 (CHOOSE c \in t.coordinateSystems : c.name = name).m], ok |-> TRUE]
  ELSE [t |-> t, ok |-> FALSE]

(***************************************************************************)
(* Attributes and AttributeStack                                           *)
(***************************************************************************)
Attributes ==
  [activeMaterial |-> kInvalidIndex, areaLight |-> kInvalidIndex,
   insideMedium |-> kInvalidIndex, outsideMedium |-> kInvalidIndex,
   reverseOrientation |-> FALSE,
   floatTextures |-> <<>>, spectrumTextures |-> <<>>, materials |-> <<>>]

AttributeStackInit ==
  [attrs |-> [i \in 1..(MaxStackEntry + 1) |-> Attributes], entry |-> 0]

\* *top of the source: attrs[entry], the stack being indexed from 1 here.
Top(a) == a.attrs[a.entry + 1]

\* A push that also hands the three name lists of the frame below to the new
\* frame.
AttributeStack_push_copy_all(a) ==
  IF a.entry = MaxStackEntry THEN [a |-> a, ok |-> FALSE]
  ELSE [a |-> [a EXCEPT !.attrs[a.entry + 2] = a.attrs[a.entry + 1], !.entry = @ + 1], ok |-> TRUE]

AttributeStack_push(a) ==
  IF a.entry = MaxStackEntry THEN [a |-> a, ok |-> FALSE]
  ELSE [a |-> [a EXCEPT !.attrs[a.entry + 2].activeMaterial     = a.attrs[a.entry + 1].activeMaterial,
                        !.attrs[a.entry + 2].areaLight          = a.attrs[a.entry + 1].areaLight,
                        !.attrs[a.entry + 2].insideMedium       = a.attrs[a.entry + 1].insideMedium,
                        !.attrs[a.entry + 2].outsideMedium      = a.attrs[a.entry + 1].outsideMedium,
                        !.attrs[a.entry + 2].reverseOrientation = a.attrs[a.entry + 1].reverseOrientation,
                        !.entry = @ + 1],
        ok |-> TRUE]

\* A pop that writes the scalars of the popped frame into the frame below.
AttributeStack_pop_leak(a) ==
  IF a.entry = 0 THEN [a |-> a, ok |-> FALSE]
  ELSE [a |-> [a EXCEPT !.attrs[a.entry] = [Top(a) EXCEPT !.floatTextures = a.attrs[a.entry].floatTextures,
                                                          !.spectrumTextures = a.attrs[a.entry].spectrumTextures,
                                                          !.materials = a.attrs[a.entry].materials],
                        !.entry = @ - 1], ok |-> TRUE]

AttributeStack_pop(a) ==
  IF a.entry = 0 THEN [a |-> a, ok |-> FALSE]
  ELSE [a |-> [a EXCEPT !.attrs[a.entry + 1].floatTextures = <<>>,
                        !.attrs[a.entry + 1].spectrumTextures = <<>>,
                        !.attrs[a.entry + 1].materials = <<>>,
                        !.entry = @ - 1],
        ok |-> TRUE]

AttributeStack_clear(a) == [a EXCEPT !.entry = 0]

(***************************************************************************)
(* The Scene and the Parser.  A parser state P holds                       *)
(*   tok          m_tokenizer (a parse state st as above)                  *)
(*   inWorld      m_inWorld                                                *)
(*   statementIndex m_statementIndex                                       *)
(*   transforms, attrs, scene   *m_transforms, *m_attrs, *m_scene          *)
(*   activeObject, firstShape   m_activeObject, m_firstShape               *)
(* Entities keep their type, their name and the handles they store.        *)
(***************************************************************************)
\* The film, the integrator and the accelerator as their constructors leave
\* them, with the fields of interest; "null" stands for a null pointer.
ImageFilm == [type |-> "image", xresolution |-> 640, yresolution |-> 480, filename |-> "null"]
PathIntegrator == [type |-> "path", maxdepth |-> 5]
BVHAccelerator == [type |-> "bvh", maxnodeprims |-> 4, splitmethod |-> "sah"]

\* The Scene that Parser::Parser creates: no camera yet, the other five
\* components already constructed.
SceneInit ==
  [shapes |-> <<>>, materials |-> <<>>, textures |-> <<>>, mediums |-> <<>>,
   areaLights |-> <<>>, lights |-> <<>>, objects |-> <<>>, instances |-> <<>>,
   camera |-> "null", film |-> ImageFilm, filter |-> "box", integrator |-> PathIntegrator,
   sampler |-> "halton", accelerator |-> BVHAccelerator, startTime |-> "0", endTime |-> "0"]

Ok(P) == [P |-> P, ok |-> TRUE]
Fail(P, msg) == [P |-> [P EXCEPT !.tok = set_error(P.tok, msg)], ok |-> FALSE]

string_arg(P, index) == P.tok.params[index + 1].val[1]
enum_arg(P, index) == P.tok.params[index + 1].val[1]
float_arg(P, index) == P.tok.params[index + 1].val[1]

NoParam == [name |-> "", type |-> "None", count |-> 0, val |-> <<>>]

\* Parser::find_param: the first parameter called name, when its type is
\* allowed; NoParam stands for nullptr.
find_param(P, name, allowedTypes) ==
  The({
    IF hit = {} THEN NoParam
    ELSE The({
      IF P.tok.params[k].type \in allowedTypes THEN P.tok.params[k] ELSE NoParam
      : k \in {CHOOSE i \in hit : \A h \in hit : i <= h} })
    : hit \in {{i \in 1..Len(P.tok.params) : P.tok.params[i].name = name}} })

\* string_param, float_param, spectrum_param: [ok, val].
string_param(P, name) ==
  The({
    IF d = NoParam \/ d.count # 1 THEN [ok |-> FALSE, val |-> ""]
    ELSE [ok |-> TRUE, val |-> d.val[1]]
    : d \in {find_param(P, name, {"String"})} })

\* Parser::int_param: the value of the parameter, dest when it is absent.
int_param(P, name, dest) ==
  The({ IF d = NoParam \/ d.count # 1 THEN dest ELSE d.val[1]
        : d \in {find_param(P, name, {"Int"})} })

enum_param(P, name, values) ==
  The({
    IF ~v.ok THEN [ok |-> FALSE, index |-> -1]
    ELSE IF IndexOf(v.val, values) = -1 THEN [ok |-> FALSE, index |-> -1]
    ELSE [ok |-> TRUE, index |-> IndexOf(v.val, values)]
    : v \in {string_param(P, name)} })

\* The first i in the list idxs (scanned from its front) whose entity in
\* vec is called name; kInvalidIndex when there is none.
FirstNamed(idxs, vec, name) ==
  The({
    IF hit = {} THEN kInvalidIndex
    ELSE idxs[CHOOSE k \in hit : \A h \in hit : k <= h]
    : hit \in {{k \in 1..Len(idxs) : vec[idxs[k] + 1].name = name}} })

\* The same scan from the back of the list.
LastNamed(idxs, vec, name) ==
  The({
    IF hit = {} THEN kInvalidIndex
    ELSE idxs[CHOOSE k \in hit : \A h \in hit : k >= h]
    : hit \in {{k \in 1..Len(idxs) : vec[idxs[k] + 1].name = name}} })

\* The frames attrs[entry] down to attrs[0]; each one's list is scanned from
\* its front, or from its back when newestFirst.
RECURSIVE FindInFrames(_, _, _, _, _, _)
FindInFrames(a, i, list, vec, name, newestFirst) ==
  IF i < 0 THEN kInvalidIndex
  ELSE The({
    IF r # kInvalidIndex THEN r ELSE FindInFrames(a, i - 1, list, vec, name, newestFirst)
    : r \in {IF newestFirst THEN LastNamed(a.attrs[i + 1][list], vec, name)
             ELSE FirstNamed(a.attrs[i + 1][list], vec, name)} })

\* A find_material that scans each frame's list from the newest entry.
find_material_newest_first(P, name) ==
  IF name = "" THEN kInvalidIndex
  ELSE FindInFrames(P.attrs, P.attrs.entry, "materials", P.scene.materials, name, TRUE)

find_material(P, name) ==
  IF name = "" THEN kInvalidIndex
  ELSE FindInFrames(P.attrs, P.attrs.entry, "materials", P.scene.materials, name, FALSE)

find_texture(P, name, dataType) ==
  IF name = "" THEN kInvalidIndex
  ELSE IF dataType = "Float"
  THEN FindInFrames(P.attrs, P.attrs.entry, "floatTextures", P.scene.textures, name, FALSE)
  ELSE FindInFrames(P.attrs, P.attrs.entry, "spectrumTextures", P.scene.textures, name, FALSE)

\* find_object and find_medium search the whole vector from its back.
FindNewest(vec, name) ==
  The({
    IF name = "" \/ hit = {} THEN kInvalidIndex
    ELSE (CHOOSE i \in hit : \A h \in hit : i >= h) - 1
    : hit \in {{i \in 1..Len(vec) : vec[i].name = name}} })

find_object(P, name) == FindNewest(P.scene.objects, name)

find_medium(P, name) == FindNewest(P.scene.mediums, name)

\* texture_param: the handle written to *dest, kept at dflt when the
\* function returns false.
texture_param(P, name, dataType, dflt) ==
  The({
    IF d = NoParam \/ d.count # 1 THEN dflt
    ELSE The({ IF tex = kInvalidIndex THEN dflt ELSE tex
               : tex \in {find_texture(P, d.val[1], dataType)} })
    : d \in {find_param(P, name, {"Texture"})} })

\* The texture handle of a FloatTex / ColorTex read by float_texture_param
\* and color_texture_param (dflt is kInvalidIndex), and by their
\* _with_default forms (dflt is the base material's handle).
float_texture_param(P, name, dflt) == texture_param(P, name, "Float", dflt)
color_texture_param(P, name, dflt) == texture_param(P, name, "Spectrum", dflt)

(***************************************************************************)
(* The directive handlers.  Each takes the parser state after parse_args   *)
(* and parse_params and gives [P, ok].  The inputs name known types only,  *)
(* and of the shape, material and texture types those whose parameters are *)
(* modelled: sphere and plymesh; matte, mix and none; constant and scale.  *)
(***************************************************************************)
Size(vec) == Len(vec)

parse_Identity(P) == Ok([P EXCEPT !.transforms = TransformStack_identity(@)])
parse_Translate(P) == Ok([P EXCEPT !.transforms = TransformStack_multiply(@, "translate")])
parse_Scale(P) == Ok([P EXCEPT !.transforms = TransformStack_multiply(@, "scale")])
parse_Rotate(P) == Ok([P EXCEPT !.transforms = TransformStack_multiply(@, "rotate")])
parse_LookAt(P) == Ok([P EXCEPT !.transforms = TransformStack_multiply(@, "lookAt")])
parse_Transform(P) == Ok([P EXCEPT !.transforms = TransformStack_transform(@, "m")])
parse_ConcatTransform(P) == Ok([P EXCEPT !.transforms = TransformStack_multiply(@, "m")])

parse_CoordinateSystem(P) ==
  Ok([P EXCEPT !.transforms = TransformStack_coordinateSystem(@, string_arg(P, 0))])

parse_CoordSysTransform(P) ==
  The({
    IF ~r.ok THEN Fail(P, "Coordinate system has not been defined")
    ELSE Ok([P EXCEPT !.transforms = r.t])
    : r \in {TransformStack_coordSysTransform(P.transforms, string_arg(P, 0))} })

parse_ActiveTransform(P) ==
  LET transformIndex == enum_arg(P, 0) IN
  Ok([P EXCEPT !.transforms.active =
        IF transformIndex = 0 THEN <<TRUE, FALSE>>
        ELSE IF transformIndex = 1 THEN <<FALSE, TRUE>>
        ELSE <<TRUE, TRUE>>])

\* The inputs give no nx, ny, nz or density, so a heterogeneous medium keeps
\* its 1 x 1 x 1 grid and is accepted.
parse_MakeNamedMedium(P) ==
  The({
    IF ~t.ok THEN Fail(P, "Unknown medium type")
    ELSE Ok([P EXCEPT !.scene.mediums = Append(@, [name |-> string_arg(P, 0), type |-> t.index])])
    : t \in {enum_param(P, "type", kMediumTypes)} })

parse_MediumInterface(P) ==
  LET inside == string_arg(P, 0)
      outside == string_arg(P, 1)
      insideMedium == IF P.inWorld /\ inside # "" THEN find_medium(P, inside) ELSE kInvalidIndex
      outsideMedium == IF outside # "" THEN find_medium(P, outside) ELSE kInvalidIndex IN
  Ok([P EXCEPT !.attrs.attrs[P.attrs.entry + 1].insideMedium = insideMedium,
               !.attrs.attrs[P.attrs.entry + 1].outsideMedium = outsideMedium])

\* parse_Include; included is the included file as the first refill_buffer
\* loads it: <<>> when it cannot be opened, else its first lexeme.
parse_Include(P, included) ==
  The({ [P |-> [P EXCEPT !.tok = r.st], ok |-> r.ok]
        : r \in {push_file(P.tok, string_arg(P, 0), FALSE, included)} })

parse_AttributeBegin(P) ==
  The({
    IF ~t.ok THEN Fail(P, "Exceeded maximum transform stack size")
    ELSE IF ~a.ok THEN Fail([P EXCEPT !.transforms = t.t], "Exceeded maximum attribute stack size")
    ELSE Ok([P EXCEPT !.transforms = t.t, !.attrs = a.a])
    : t \in {TransformStack_push(P.transforms)}, a \in {AttributeStack_push(P.attrs)} })

parse_AttributeEnd(P) ==
  The({
    IF ~a.ok THEN Fail(P, "Cannot pop last attribute set off the stack")
    ELSE IF ~t.ok THEN Fail([P EXCEPT !.attrs = a.a], "Cannot pop last transform set off the stack")
    ELSE Ok([P EXCEPT !.attrs = a.a, !.transforms = t.t])
    : a \in {AttributeStack_pop(P.attrs)}, t \in {TransformStack_pop(P.transforms)} })

NewMaterial(type) ==
  [type |-> type, name |-> "", bumpmap |-> kInvalidIndex, Kd |-> kInvalidIndex,
   sigma |-> kInvalidIndex, amount |-> kInvalidIndex,
   namedmaterial1 |-> kInvalidIndex, namedmaterial2 |-> kInvalidIndex]

MaterialType(name) == IndexOf(name, kMaterialTypes)

kFloatParamsByMaterial(type) == IF type = MaterialType("matte") THEN {"sigma"} ELSE {}

\* Parser::has_material_overrides
has_material_overrides(P, matIdx) ==
  IF matIdx = kInvalidIndex THEN FALSE
  ELSE LET mat == P.scene.materials[matIdx + 1]
           ps == P.tok.params IN
    \/ \E i \in 1..Len(ps) :
         \/ ps[i].type \in kSpectrumTypes
         \/ ps[i].type = "Texture" /\ ps[i].name \notin {"alpha", "shadowalpha"}
         \/ ps[i].type = "Float" /\ ps[i].name \in kFloatParamsByMaterial(mat.type)
         \/ ps[i].type = "Bool" /\ ps[i].name = "remaproughness"
    \/ /\ mat.type = MaterialType("mix")
       /\ \/ find_param(P, "namedmaterial1", {"String"}) # NoParam
          \/ find_param(P, "namedmaterial2", {"String"}) # NoParam

\* A parse_material_overrides that also makes the new material the active
\* material of the current attribute frame.
parse_material_overrides_activated(P, base) ==
  [P |-> [P EXCEPT !.scene.materials = Append(@, NewMaterial(base.type)),
                   !.attrs.attrs[P.attrs.entry + 1].activeMaterial = Size(P.scene.materials)],
   material |-> Size(P.scene.materials)]

\* Parser::parse_material_overrides: the material appended for a shape that
\* overrides parameters of base.
parse_material_overrides(P, base) ==
  LET m0 == NewMaterial(base.type)
      m1 == IF base.type = MaterialType("matte")
            THEN [m0 EXCEPT !.Kd = color_texture_param(P, "Kd", base.Kd),
                            !.sigma = float_texture_param(P, "sigma", base.sigma)]
            ELSE IF base.type = MaterialType("mix")
            THEN [m0 EXCEPT !.amount = color_texture_param(P, "amount", base.amount),
                            !.namedmaterial1 = IF string_param(P, "namedmaterial1").ok
                                               THEN find_material(P, string_param(P, "namedmaterial1").val)
                                               ELSE base.namedmaterial1,
                            !.namedmaterial2 = IF string_param(P, "namedmaterial2").ok
                                               THEN find_material(P, string_param(P, "namedmaterial2").val)
                                               ELSE base.namedmaterial2]
            ELSE m0
      material == [m1 EXCEPT !.bumpmap = texture_param(P, "bumpmap", "Float", base.bumpmap)] IN
  [P |-> [P EXCEPT !.scene.materials = Append(@, material)],
   material |-> Size(P.scene.materials)]

NewShape(type) ==
  [type |-> type, material |-> kInvalidIndex, areaLight |-> kInvalidIndex,
   insideMedium |-> kInvalidIndex, outsideMedium |-> kInvalidIndex,
   object |-> kInvalidIndex, reverseOrientation |-> FALSE,
   alpha |-> kInvalidIndex, shadowalpha |-> kInvalidIndex]

parse_Shape(P) ==
  LET shapeType == enum_arg(P, 0)
      ply == shapeType = IndexOf("plymesh", kShapeTypes) IN
  IF ply /\ ~string_param(P, "filename").ok
  THEN Fail(P, "Required parameter \"filename\" is missing.")
  ELSE
    The({
      The({
        Ok([r.P EXCEPT !.firstShape = IF P.activeObject # kInvalidIndex /\ P.firstShape = kInvalidIndex
                                      THEN Size(P.scene.shapes) ELSE @,
                       !.scene.shapes = Append(@, [shape EXCEPT !.material = r.material])])
        : r \in {IF shape.material # kInvalidIndex /\ has_material_overrides(P, shape.material)
                 THEN parse_material_overrides(P, P.scene.materials[shape.material + 1])
                 ELSE [P |-> P, material |-> shape.material]} })
      : shape \in {[NewShape(shapeType) EXCEPT
                 !.alpha = IF ply THEN texture_param(P, "alpha", "Float", kInvalidIndex) ELSE @,
                 !.shadowalpha = IF ply THEN texture_param(P, "shadowalpha", "Float", kInvalidIndex) ELSE @,
                 !.material = Top(P.attrs).activeMaterial,
                 !.areaLight = Top(P.attrs).areaLight,
                 !.insideMedium = Top(P.attrs).insideMedium,
                 !.outsideMedium = Top(P.attrs).outsideMedium,
                 !.object = P.activeObject,
                 !.reverseOrientation = Top(P.attrs).reverseOrientation]} })

\* An AreaLightSource that takes the handle after the push_back.
parse_AreaLightSource_after_push(P) ==
  Ok([P EXCEPT !.scene.areaLights = Append(@, [type |-> enum_arg(P, 0)]),
               !.attrs.attrs[P.attrs.entry + 1].areaLight = Size(P.scene.areaLights) + 1])

parse_AreaLightSource(P) ==
  Ok([P EXCEPT !.attrs.attrs[P.attrs.entry + 1].areaLight = Size(P.scene.areaLights),
               !.scene.areaLights = Append(@, [type |-> enum_arg(P, 0)])])

parse_LightSource(P) ==
  LET lightType == enum_arg(P, 0) IN
  IF lightType \in {IndexOf("goniometric", kLightTypes), IndexOf("projection", kLightTypes)}
     /\ ~string_param(P, "mapname").ok
  THEN Fail(P, "Required parameter \"mapname\" is missing")
  ELSE Ok([P EXCEPT !.scene.lights = Append(@, [type |-> lightType])])

\* Parser::parse_material_common.  Result: [P, ok, material].
parse_material_common(P, materialType, materialName) ==
  LET m0 == NewMaterial(materialType)
      m1 == IF materialType = MaterialType("matte")
            THEN [m0 EXCEPT !.Kd = color_texture_param(P, "Kd", kInvalidIndex),
                            !.sigma = float_texture_param(P, "sigma", kInvalidIndex)]
            ELSE IF materialType = MaterialType("mix")
            THEN [m0 EXCEPT !.amount = color_texture_param(P, "amount", kInvalidIndex),
                            !.namedmaterial1 = IF string_param(P, "namedmaterial1").ok
                                               THEN find_material(P, string_param(P, "namedmaterial1").val)
                                               ELSE @,
                            !.namedmaterial2 = IF string_param(P, "namedmaterial2").ok
                                               THEN find_material(P, string_param(P, "namedmaterial2").val)
                                               ELSE @]
            ELSE m0
      material == [m1 EXCEPT !.bumpmap = texture_param(P, "bumpmap", "Float", kInvalidIndex),
                             !.name = materialName] IN
  [P |-> [P EXCEPT !.attrs.attrs[P.attrs.entry + 1].materials = Append(@, Size(P.scene.materials)),
                   !.scene.materials = Append(@, material)],
   ok |-> TRUE,
   material |-> Size(P.scene.materials)]

\* The MaterialType of a type index: the entry after "uber", the empty name,
\* is None.
MaterialTypeOf(materialTypeIndex) ==
  IF materialTypeIndex = MaterialType("uber") + 1 THEN MaterialType("none") ELSE materialTypeIndex

parse_Material(P) ==
  The({ Ok([r.P EXCEPT !.attrs.attrs[P.attrs.entry + 1].activeMaterial = r.material])
        : r \in {parse_material_common(P, MaterialTypeOf(enum_arg(P, 0)), "")} })

parse_MakeNamedMaterial(P) ==
  The({
    IF ~t.ok THEN Fail(P, "Unknown or invalid material type")
    ELSE The({ Ok(r.P) : r \in {parse_material_common(P, MaterialTypeOf(t.index), string_arg(P, 0))} })
    : t \in {enum_param(P, "type", kMaterialTypes)} })

\* A NamedMaterial that leaves the active material as it is.
parse_NamedMaterial_ignored(P) == Ok(P)

parse_NamedMaterial(P) ==
  The({
    IF material = kInvalidIndex THEN Ok(P)
    ELSE Ok([P EXCEPT !.attrs.attrs[P.attrs.entry + 1].activeMaterial = material])
    : material \in {find_material(P, string_arg(P, 0))} })

Object == [name |-> "", firstShape |-> kInvalidIndex, numShapes |-> 0]

\* An ObjectBegin that does not look at the active object.
parse_ObjectBegin_nested(P) ==
  The({
  IF ~t.ok THEN Fail(P, "Exceeded maximum transform stack size")
  ELSE IF ~a.ok THEN Fail([P EXCEPT !.transforms = t.t], "Exceeded maximum attribute stack size")
  ELSE Ok([P EXCEPT !.transforms = t.t, !.attrs = a.a,
                    !.firstShape = kInvalidIndex,
                    !.activeObject = Size(P.scene.objects),
                    !.scene.objects = Append(@, [Object EXCEPT !.name = string_arg(P, 0)])])
  : t \in {TransformStack_push(P.transforms)}, a \in {AttributeStack_push(P.attrs)} })

\* An ObjectEnd that counts every shape of the Scene as the object's.
parse_ObjectEnd_count_all(P) ==
  The({
  IF P.activeObject = kInvalidIndex THEN Fail(P, "ObjectEnd without an ObjectBegin")
  ELSE IF ~a.ok THEN Fail(P, "Cannot pop last attribute set off the stack")
  ELSE IF ~t.ok THEN Fail([P EXCEPT !.attrs = a.a], "Cannot pop last transform set off the stack")
  ELSE Ok([P EXCEPT !.attrs = a.a, !.transforms = t.t,
                    !.scene.objects[P.activeObject + 1].firstShape = P.firstShape,
                    !.scene.objects[P.activeObject + 1].numShapes =
                       IF P.firstShape = kInvalidIndex THEN 0 ELSE Size(P.scene.shapes),
                    !.activeObject = kInvalidIndex])
  : a \in {AttributeStack_pop(P.attrs)}, t \in {TransformStack_pop(P.transforms)} })

parse_ObjectBegin(P) ==
  The({
  IF P.activeObject # kInvalidIndex THEN Fail(P, "Previous ObjectBegin has not been closed yet")
  ELSE IF ~t.ok THEN Fail(P, "Exceeded maximum transform stack size")
  ELSE IF ~a.ok THEN Fail([P EXCEPT !.transforms = t.t], "Exceeded maximum attribute stack size")
  ELSE Ok([P EXCEPT !.transforms = t.t, !.attrs = a.a,
                    !.firstShape = kInvalidIndex,
                    !.activeObject = Size(P.scene.objects),
                    !.scene.objects = Append(@, [Object EXCEPT !.name = string_arg(P, 0)])])
  : t \in {TransformStack_push(P.transforms)}, a \in {AttributeStack_push(P.attrs)} })

parse_ObjectEnd(P) ==
  The({
  IF P.activeObject = kInvalidIndex THEN Fail(P, "ObjectEnd without an ObjectBegin")
  ELSE IF ~a.ok THEN Fail(P, "Cannot pop last attribute set off the stack")
  ELSE IF ~t.ok THEN Fail([P EXCEPT !.attrs = a.a], "Cannot pop last transform set off the stack")
  ELSE Ok([P EXCEPT !.attrs = a.a, !.transforms = t.t,
                    !.scene.objects[P.activeObject + 1].firstShape = P.firstShape,
                    !.scene.objects[P.activeObject + 1].numShapes =
                       IF P.firstShape = kInvalidIndex THEN 0
                       ELSE Size(P.scene.shapes) - P.firstShape,
                    !.activeObject = kInvalidIndex])
  : a \in {AttributeStack_pop(P.attrs)}, t \in {TransformStack_pop(P.transforms)} })

parse_ObjectInstance(P) ==
  The({
  IF P.activeObject # kInvalidIndex THEN Fail(P, "Nested instances are not allowed")
  ELSE IF object = kInvalidIndex THEN Ok(P)
  ELSE Ok([P EXCEPT !.scene.instances = Append(@,
             [object |-> object, areaLight |-> top.areaLight,
              insideMedium |-> top.insideMedium, outsideMedium |-> top.outsideMedium,
              reverseOrientation |-> top.reverseOrientation])])
  : object \in {find_object(P, string_arg(P, 0))}, top \in {Top(P.attrs)} })

parse_Texture(P) ==
  LET textureType == enum_arg(P, 2)
      dataType == enum_arg(P, 1)
      scale == textureType = IndexOf("scale", kTextureTypes)
      texture == [name |-> string_arg(P, 0), dataType |-> dataType, type |-> textureType,
                  tex1 |-> IF scale THEN color_texture_param(P, "tex1", kInvalidIndex) ELSE kInvalidIndex,
                  tex2 |-> IF scale THEN color_texture_param(P, "tex2", kInvalidIndex) ELSE kInvalidIndex] IN
  Ok([P EXCEPT !.attrs.attrs[P.attrs.entry + 1].floatTextures =
                  IF dataType = 0 THEN Append(@, Size(P.scene.textures)) ELSE @,
               !.attrs.attrs[P.attrs.entry + 1].spectrumTextures =
                  IF dataType = 0 THEN @ ELSE Append(@, Size(P.scene.textures)),
               !.scene.textures = Append(@, texture)])

parse_TransformBegin(P) ==
  The({
    IF ~t.ok THEN Fail(P, "Exceeded maximum attribute stack size")
    ELSE Ok([P EXCEPT !.transforms = t.t])
    : t \in {TransformStack_push(P.transforms)} })

parse_TransformEnd(P) ==
  The({
    IF ~t.ok THEN Fail(P, "Cannot pop last transform set off the stack")
    ELSE Ok([P EXCEPT !.transforms = t.t])
    : t \in {TransformStack_pop(P.transforms)} })

parse_ReverseOrientation(P) ==
  Ok([P EXCEPT !.attrs.attrs[P.attrs.entry + 1].reverseOrientation = ~@])

bvhSplitMethods == <<"sah", "middle", "equal", "hlbvh">>

parse_Accelerator(P) ==
  IF kAccelTypes[enum_arg(P, 0) + 1] = "bvh"
  THEN The({
    Ok([P EXCEPT !.scene.accelerator =
          [BVHAccelerator EXCEPT !.maxnodeprims = int_param(P, "maxnodeprims", @),
                                 !.splitmethod = IF split.ok THEN bvhSplitMethods[split.index + 1] ELSE @]])
    : split \in {enum_param(P, "splitmethod", bvhSplitMethods)} })
  ELSE Ok([P EXCEPT !.scene.accelerator = [type |-> kAccelTypes[enum_arg(P, 0) + 1]]])

parse_Camera(P) ==
  Ok([P EXCEPT !.transforms = TransformStack_coordinateSystem(@, "camera"),
               !.scene.camera = kCameraTypes[enum_arg(P, 0) + 1]])

parse_Film(P) ==
  The({
    Ok([P EXCEPT !.scene.film =
          [ImageFilm EXCEPT !.xresolution = int_param(P, "xresolution", @),
                            !.yresolution = int_param(P, "yresolution", @),
                            !.filename = IF filename.ok THEN filename.val ELSE @]])
    : filename \in {string_param(P, "filename")} })

parse_Integrator(P) ==
  IF kIntegratorTypes[enum_arg(P, 0) + 1] = "path"
  THEN Ok([P EXCEPT !.scene.integrator =
             [PathIntegrator EXCEPT !.maxdepth = int_param(P, "maxdepth", @)]])
  ELSE Ok([P EXCEPT !.scene.integrator = [type |-> kIntegratorTypes[enum_arg(P, 0) + 1]]])

parse_PixelFilter(P) == Ok([P EXCEPT !.scene.filter = kPixelFilterTypes[enum_arg(P, 0) + 1]])

parse_Sampler(P) == Ok([P EXCEPT !.scene.sampler = kSamplerTypes[enum_arg(P, 0) + 1]])

parse_TransformTimes(P) ==
  Ok([P EXCEPT !.scene.startTime = float_arg(P, 0), !.scene.endTime = float_arg(P, 1)])

parse_WorldBegin(P) ==
  The({ The({
    Ok([P2 EXCEPT
          !.scene.sampler = IF @ = "null" THEN "halton" ELSE @,
          !.scene.film = IF @.type = "null" THEN [ImageFilm EXCEPT !.filename = "pbrt.exr"] ELSE @,
          !.scene.filter = IF @ = "null" THEN "box" ELSE @,
          !.scene.integrator = IF @.type = "null" THEN PathIntegrator ELSE @,
          !.scene.accelerator = IF @.type = "null" THEN BVHAccelerator ELSE @])
    : P2 \in {IF P1.scene.camera = "null"
              THEN [P1 EXCEPT !.scene.camera = "perspective",
                              !.transforms = TransformStack_coordinateSystem(@, "camera")]
              ELSE P1} })
    : P1 \in {[P EXCEPT !.inWorld = TRUE,
                        !.transforms = TransformStack_clear(@),
                        !.attrs = AttributeStack_clear(@)]} })

parse_WorldEnd(P) == Ok([P EXCEPT !.inWorld = FALSE])

(***************************************************************************)
(* Parser::parse_statement and the loop of Parser::parse                   *)
(***************************************************************************)
\* A gate that lets every directive through.
allowed_always(inWorld, statement) == TRUE

\* bool allowed = m_inWorld ? statement.inWorld : statement.inPreamble
allowed(inWorld, statement) == IF inWorld THEN statement.inWorld ELSE statement.inPreamble

\* The switch of parse_statement over statement.id.
Dispatch(P, name, included) ==
  CASE name = "Identity"           -> parse_Identity(P)
    [] name = "Translate"          -> parse_Translate(P)
    [] name = "Scale"              -> parse_Scale(P)
    [] name = "Rotate"             -> parse_Rotate(P)
    [] name = "LookAt"             -> parse_LookAt(P)
    [] name = "CoordinateSystem"   -> parse_CoordinateSystem(P)
    [] name = "CoordSysTransform"  -> parse_CoordSysTransform(P)
    [] name = "Transform"          -> parse_Transform(P)
    [] name = "ConcatTransform"    -> parse_ConcatTransform(P)
    [] name = "ActiveTransform"    -> parse_ActiveTransform(P)
    [] name = "MakeNamedMedium"    -> parse_MakeNamedMedium(P)
    [] name = "MediumInterface"    -> parse_MediumInterface(P)
    [] name = "Include"            -> parse_Include(P, included)
    [] name = "AttributeBegin"     -> parse_AttributeBegin(P)
    [] name = "AttributeEnd"       -> parse_AttributeEnd(P)
    [] name = "Shape"              -> parse_Shape(P)
    [] name = "AreaLightSource"    -> parse_AreaLightSource(P)
    [] name = "LightSource"        -> parse_LightSource(P)
    [] name = "Material"           -> parse_Material(P)
    [] name = "MakeNamedMaterial"  -> parse_MakeNamedMaterial(P)
    [] name = "NamedMaterial"      -> parse_NamedMaterial(P)
    [] name = "ObjectBegin"        -> parse_ObjectBegin(P)
    [] name = "ObjectEnd"          -> parse_ObjectEnd(P)
    [] name = "ObjectInstance"     -> parse_ObjectInstance(P)
    [] name = "Texture"            -> parse_Texture(P)
    [] name = "TransformBegin"     -> parse_TransformBegin(P)
    [] name = "TransformEnd"       -> parse_TransformEnd(P)
    [] name = "ReverseOrientation" -> parse_ReverseOrientation(P)
    [] name = "WorldEnd"           -> parse_WorldEnd(P)
    [] name = "Accelerator"        -> parse_Accelerator(P)
    [] name = "Camera"             -> parse_Camera(P)
    [] name = "Film"               -> parse_Film(P)
    [] name = "Integrator"         -> parse_Integrator(P)
    [] name = "PixelFilter"        -> parse_PixelFilter(P)
    [] name = "Sampler"            -> parse_Sampler(P)
    [] name = "TransformTimes"     -> parse_TransformTimes(P)
    [] name = "WorldBegin"         -> parse_WorldBegin(P)

parse_statement(P, included) ==
  The({
    IF ~d.ok THEN Fail([P EXCEPT !.statementIndex = kInvalidIndex], "Unknown statement")
    ELSE The({
      IF ~allowed(P.inWorld, statement)
      THEN Fail(P0, statement.name \o " is not allowed in the "
                    \o (IF P.inWorld THEN "world" ELSE "preamble") \o " section")
      ELSE The({
        The({
          IF ~p.ok
          THEN Fail([P0 EXCEPT !.tok = p.st], "Failed to parse parameters for " \o statement.name)
          ELSE The({
            The({
              IF ~r.ok THEN Fail(r.P, "Failed to parse " \o statement.name)
              ELSE r
              : r \in {Dispatch(P1, statement.name, included)} })
            : P1 \in {[P0 EXCEPT !.tok = p.st]} })
          : p \in {IF a.ok THEN parse_params(a.st) ELSE a} })
        : a \in {parse_args(P0.tok, statement)} })
      : statement \in {kStatements[d.index + 1]},
        P0 \in {[P EXCEPT !.statementIndex = d.index, !.tok = [d.st EXCEPT !.params = <<>>]]} })
    : d \in {which_directive(P.tok)} })

\* while (ok && m_tokenizer.advance()) ok = parse_statement(), run until the
\* cursor is on a directive keyword that is not yet given (running), on the
\* end of the input, or a statement has failed.  Result: [P, running, ok].
RECURSIVE parse_loop(_, _)
parse_loop(P, included) ==
  The({
    IF Peek(P1.tok).k = "eof" THEN [P |-> P1, running |-> FALSE, ok |-> TRUE]
    ELSE IF Peek(P1.tok).k = "next" THEN [P |-> P1, running |-> TRUE, ok |-> TRUE]
    ELSE The({
      IF ~r.ok THEN [P |-> r.P, running |-> FALSE, ok |-> FALSE]
      ELSE parse_loop(r.P, included)
      : r \in {parse_statement(P1, included)} })
    : P1 \in {[P EXCEPT !.tok = advance(P.tok)]} })

(***************************************************************************)
(* The tokenizer at the level of bytes: the buffer m_buf of m_bufCapacity  *)
(* + 1 chars, the cursor m_pos/m_end, the end m_bufEnd of the usable part  *)
(* and the include stack m_fileData with each file's read position and     *)
(* bufOffset.  A tokenizer t holds                                         *)
(*   disk        the files by name, each a sequence of chars               *)
(*   bufCapacity, maxIncludeDepth   the two configuration settings         *)
(*   fileData    m_fileData[0..m_includeDepth], <<>> before open_file      *)
(*   buf         m_buf, buf[i + 1] being m_buf[i]                          *)
(*   bufEnd, pos, end   m_bufEnd, m_pos, m_end as offsets from m_buf       *)
(*   error       the message of *m_error, "" while m_error == nullptr      *)
(*   ub          history: a char beyond the end of the array m_buf was read*)
(*   executed    history: the directives whose handlers ran, in order, each*)
(*               with its string argument                                  *)
(*   pushes      history: for each push_file call of Include, m_fileData   *)
(*               before and after it and what it returned                  *)
(*   phase       "constructed", "parsing", "true" or "false"               *)
(* Offsets are those of C, so that the char at offset i is buf[i + 1].     *)
(***************************************************************************)
NUL == "NUL"
NL == "NL"

is_whitespace(ch) == ch = " "

\* Chars 1..32 and 127 and above; of the chars used here, blank and newline.
is_safe_buffer_end(ch) == ch \in {" ", NL}

is_keyword_part(ch) == ch \in {"a", "b", "s", "I", "x", "y", "f", "g"}

Tokenizer(disk, bufCapacity, maxIncludeDepth) ==
  [disk |-> disk, bufCapacity |-> bufCapacity, maxIncludeDepth |-> maxIncludeDepth,
   fileData |-> <<>>, buf |-> <<>>, bufEnd |-> 0, pos |-> 0, end |-> 0,
   error |-> "", ub |-> FALSE, executed |-> <<>>, pushes |-> <<>>, phase |-> "constructed"]

Tokenizer_set_error(t, msg) == IF t.error # "" THEN t ELSE [t EXCEPT !.error = msg]

\* fread(m_buf + keep, 1, n, fdata->f): the chars of the current file from
\* its read position, at most n of them.
fread(t, n) ==
  The({ SubSeq(t.disk[fd.filename], fd.f + 1,
               IF fd.f + n < Len(t.disk[fd.filename]) THEN fd.f + n
               ELSE Len(t.disk[fd.filename]))
        : fd \in {t.fileData[Len(t.fileData)]} })

\* m_bufEnd moved back over the chars that are not safe to end a buffer on.
RECURSIVE TrimBufEnd(_, _)
TrimBufEnd(buf, e) ==
  IF e > 0 /\ ~is_safe_buffer_end(buf[e]) THEN TrimBufEnd(buf, e - 1) ELSE e

\* Tokenizer::refill_buffer from "Move everything from the start of the
\* current token onwards" on: the file is not at its end.
FillBuffer(t) ==
  The({ The({ The({
    IF atEOF
    THEN [t |-> [t EXCEPT !.buf = [buf EXCEPT ![fetched + 1] = NUL],
                          !.bufEnd = fetched, !.end = t.end - t.pos, !.pos = 0,
                          !.fileData[Len(t.fileData)] =
                             [@ EXCEPT !.f = @ + Len(data), !.atEOF = TRUE,
                                       !.bufOffset = IF moved THEN @ + t.pos ELSE @]],
          ok |-> TRUE]
    ELSE The({
      IF e = 0
      THEN [t |-> [t EXCEPT !.buf = buf, !.bufEnd = 0, !.end = t.end - t.pos, !.pos = 0,
                            !.fileData[Len(t.fileData)] =
                               [@ EXCEPT !.f = @ + Len(data), !.atEOF = FALSE,
                                         !.bufOffset = IF moved THEN @ + t.pos ELSE @]],
            ok |-> FALSE]
      ELSE [t |-> [t EXCEPT !.buf = [buf EXCEPT ![t.bufCapacity + 1] = buf[e + 1], ![e + 1] = NUL],
                            !.bufEnd = e, !.end = t.end - t.pos, !.pos = 0,
                            !.fileData[Len(t.fileData)] =
                               [@ EXCEPT !.f = @ + Len(data), !.atEOF = FALSE,
                                         !.bufOffset = IF moved THEN @ + t.pos ELSE @]],
            ok |-> TRUE]
      : e \in {TrimBufEnd(buf, fetched)} })
    : buf \in {[i \in 1..(t.bufCapacity + 1) |->
                 IF i <= keep THEN (IF moved THEN full[t.pos + i] ELSE full[i])
                 ELSE IF i <= fetched THEN data[i - keep]
                 ELSE full[i]]},
      atEOF \in {fetched < t.bufCapacity} })
    : data \in {fread(t, t.bufCapacity - keep)},
      moved \in {keep > 0 /\ t.pos > 0},
      fetched \in {keep + Len(fread(t, t.bufCapacity - keep))} })
    : full \in {IF t.bufEnd < t.bufCapacity
                THEN [t.buf EXCEPT ![t.bufEnd + 1] = t.buf[t.bufCapacity + 1],
                                   ![t.bufCapacity + 1] = NUL]
                ELSE t.buf},
      keep \in {t.bufCapacity - t.pos} })

Tokenizer_pop_file(t) ==
  IF Len(t.fileData) = 1
  THEN [t |-> Tokenizer_set_error(t, "Attempted to pop the original input file"), ok |-> FALSE]
  ELSE FillBuffer([t EXCEPT !.fileData = [SubSeq(@, 1, Len(@) - 1)
                                            EXCEPT ![Len(t.fileData) - 1].atEOF = FALSE],
                            !.bufEnd = t.bufCapacity, !.pos = t.bufCapacity, !.end = t.bufCapacity])

Tokenizer_refill_buffer(t) ==
  IF t.fileData[Len(t.fileData)].atEOF
  THEN IF Len(t.fileData) = 1 \/ t.fileData[Len(t.fileData)].reportEOF
       THEN [t |-> t, ok |-> FALSE]
       ELSE Tokenizer_pop_file(t)
  ELSE FillBuffer(t)

Tokenizer_push_file_unchecked(t, filename, reportEOF) ==
  IF filename \notin DOMAIN t.disk
  THEN [t |-> Tokenizer_set_error(t, "Failed to include"), ok |-> FALSE]
  ELSE FillBuffer([t EXCEPT
         !.fileData = Append([@ EXCEPT ![Len(t.fileData)].bufOffset = @ + t.end,
                                       ![Len(t.fileData)].f =
                                          t.fileData[Len(t.fileData)].bufOffset + t.end],
                             [filename |-> filename, f |-> 0, atEOF |-> FALSE,
                              reportEOF |-> reportEOF, bufOffset |-> 0]),
         !.bufEnd = t.bufCapacity, !.pos = t.bufCapacity, !.end = t.bufCapacity])

Tokenizer_push_file(t, filename, reportEOF) ==
  IF Len(t.fileData) - 1 = t.maxIncludeDepth
  THEN [t |-> Tokenizer_set_error(t, "Maximum include depth exceeded"), ok |-> FALSE]
  ELSE IF filename \notin DOMAIN t.disk
  THEN [t |-> Tokenizer_set_error(t, "Failed to include"), ok |-> FALSE]
  ELSE FillBuffer([t EXCEPT
         !.fileData = Append([@ EXCEPT ![Len(t.fileData)].bufOffset = @ + t.end,
                                       ![Len(t.fileData)].f =
                                          t.fileData[Len(t.fileData)].bufOffset + t.end],
                             [filename |-> filename, f |-> 0, atEOF |-> FALSE,
                              reportEOF |-> reportEOF, bufOffset |-> 0]),
         !.bufEnd = t.bufCapacity, !.pos = t.bufCapacity, !.end = t.bufCapacity])

Tokenizer_open_file(t, filename) ==
  FillBuffer([t EXCEPT
    !.fileData = <<[filename |-> filename, f |-> 0, atEOF |-> FALSE,
                    reportEOF |-> FALSE, bufOffset |-> 0]>>,
    !.buf = [i \in 1..(t.bufCapacity + 1) |-> IF i = t.bufCapacity + 1 THEN NUL ELSE "?"],
    !.bufEnd = t.bufCapacity, !.pos = t.bufCapacity, !.end = t.bufCapacity])

\* The loop of Tokenizer::advance from m_pos on.
RECURSIVE SkipToToken(_, _)
SkipToToken(t, skipLine) ==
  IF t.pos > t.bufCapacity THEN [t EXCEPT !.ub = TRUE]
  ELSE The({
    IF skipLine /\ ch # NL /\ ch # NUL THEN SkipToToken([t EXCEPT !.pos = @ + 1], TRUE)
    ELSE IF skipLine /\ ch = NL THEN SkipToToken(t, FALSE)
    ELSE IF ~skipLine /\ (is_whitespace(ch) \/ ch = NL) THEN SkipToToken([t EXCEPT !.pos = @ + 1], FALSE)
    ELSE IF ~skipLine /\ ch = "#" THEN SkipToToken([t EXCEPT !.pos = @ + 1], TRUE)
    ELSE IF t.pos = t.bufEnd
    THEN The({ IF r.ok THEN SkipToToken(r.t, skipLine) ELSE r.t
               : r \in {Tokenizer_refill_buffer([t EXCEPT !.end = t.pos])} })
    ELSE t
    : ch \in {t.buf[t.pos + 1]} })

Tokenizer_advance(t) ==
  The({ [t |-> [r EXCEPT !.end = r.pos], ok |-> ~r.ub /\ r.buf[r.pos + 1] # NUL]
        : r \in {SkipToToken([t EXCEPT !.pos = t.end], FALSE)} })

\* The do-while loop of Tokenizer::string_literal, m_end being on a char of
\* the string that is not its closing quote.  The loop compares m_end with
\* m_bufEnd for equality only: once m_end is past m_bufEnd it reads what
\* follows the terminator, in the array and then beyond it.
RECURSIVE ScanString(_)
ScanString(t) ==
  The({
    IF t1.end > t1.bufCapacity THEN [t |-> [t1 EXCEPT !.ub = TRUE], ok |-> FALSE]
    ELSE IF t1.end = t1.bufEnd /\ t1.pos = 0
    THEN [t |-> Tokenizer_set_error(t1, "String literal exceeds input buffer size"), ok |-> FALSE]
    ELSE The({
      IF ~r.ok THEN [t |-> Tokenizer_set_error(r.t, "String literal is not terminated"), ok |-> FALSE]
      ELSE IF r.t.buf[r.t.end + 1] # "\"" THEN ScanString(r.t)
      ELSE [t |-> [r.t EXCEPT !.end = @ + 1], ok |-> TRUE]
      : r \in {IF t1.end = t1.bufEnd THEN Tokenizer_refill_buffer(t1) ELSE [t |-> t1, ok |-> TRUE]} })
    : t1 \in {[t EXCEPT !.end = @ + 1]} })

Tokenizer_string_literal(t) ==
  IF t.buf[t.pos + 1] # "\"" THEN [t |-> [t EXCEPT !.end = t.pos], ok |-> FALSE]
  ELSE ScanString([t EXCEPT !.end = t.pos])

\* match_chars and match_keyword: the chars of expected at start, followed by
\* a char that is not part of a keyword.
match_keyword(expected, buf, start) ==
  /\ \A i \in 1..Len(expected) : start + i <= Len(buf) /\ buf[start + i] = expected[i]
  /\ start + Len(expected) + 1 <= Len(buf)
  /\ ~is_keyword_part(buf[start + Len(expected) + 1])

\* match_chars compares up to the first difference: it reads beyond the array
\* when all of the array from start on agrees with expected.
match_overrun(expected, buf, start) ==
  /\ Len(buf) - start <= Len(expected)
  /\ \A i \in 1..(Len(buf) - start) : buf[start + i] = expected[i]

\* The directives of the byte-level inputs: a and bb take no argument, s
\* takes a string (as CoordinateSystem does), I is Include.
kByteStatements ==
  <<[id |-> "a", name |-> <<"a">>, argPattern |-> ""],
    [id |-> "bb", name |-> <<"b", "b">>, argPattern |-> ""],
    [id |-> "s", name |-> <<"s">>, argPattern |-> "s"],
    [id |-> "Include", name |-> <<"I">>, argPattern |-> "s"]>>

ByteFail(t, msg) == [Tokenizer_set_error(t, msg) EXCEPT !.phase = "false"]

\* The string literal between m_pos and m_end without its quotes, as the
\* memcpy of string_literal leaves it in the output buffer: a C string, which
\* ends at its first NUL.
RECURSIVE CString(_)
CString(chars) ==
  IF chars = <<>> \/ Head(chars) = NUL THEN <<>> ELSE <<Head(chars)>> \o CString(Tail(chars))

Token(t) == CString(SubSeq(t.buf, t.pos + 2, t.end - 1))

\* Parser::parse_params and the handler, after parse_args: a quote opens a
\* parameter, whose type none of these inputs can name; Include pushes the
\* file, the other directives only run.
ByteHandler(t, statement, arg) ==
  The({
    IF p.t.ub THEN p.t
    ELSE IF p.ok /\ p.t.buf[p.t.pos + 1] = "\"" THEN ByteFail(p.t, "Failed to parse parameter")
    ELSE IF statement.id # "Include"
    THEN [p.t EXCEPT !.executed = Append(@, <<statement.id, arg>>)]
    ELSE The({ The({
      IF ~r.ok THEN ByteFail([r.t EXCEPT !.pushes = Append(@, pushed)], "Failed to parse Include")
      ELSE [r.t EXCEPT !.executed = Append(@, <<statement.id, arg>>),
                       !.pushes = Append(@, pushed)]
      : pushed \in {[before |-> p.t.fileData, after |-> r.t.fileData, ok |-> r.ok,
                     error |-> r.t.error]} })
      : r \in {Tokenizer_push_file(p.t, IF Len(arg) = 1 THEN arg[1] ELSE "?", FALSE)} })
    : p \in {Tokenizer_advance(t)} })

\* Parser::parse_statement on the token at m_pos.
ByteStatement(t) ==
  The({
    IF \E i \in DOMAIN kByteStatements : match_overrun(kByteStatements[i].name, t.buf, t.pos)
    THEN [t EXCEPT !.ub = TRUE]
    ELSE IF hits = {} THEN ByteFail(t, "Unknown statement")
    ELSE The({ The({
      IF a1.t.ub THEN a1.t
      ELSE IF statement.argPattern = "" THEN ByteHandler(a1.t, statement, <<>>)
      ELSE The({
        IF a2.t.ub THEN a2.t
        ELSE IF ~a2.ok THEN ByteFail(a2.t, "Failed to parse required args")
        ELSE The({
          IF s.t.ub THEN s.t
          ELSE IF ~s.ok THEN ByteFail(s.t, "Failed to parse required args")
          ELSE ByteHandler(s.t, statement, Token(s.t))
          : s \in {Tokenizer_string_literal(a2.t)} })
        : a2 \in {Tokenizer_advance(a1.t)} })
      : a1 \in {Tokenizer_advance([t EXCEPT !.end = t.pos + Len(statement.name)])} })
      : statement \in {kByteStatements[CHOOSE i \in hits : \A j \in hits : i <= j]} })
    : hits \in {{i \in DOMAIN kByteStatements : match_keyword(kByteStatements[i].name, t.buf, t.pos)}} })

\* One turn of the loop of Parser::parse, and its return when advance fails.
ByteTurn(t) ==
  The({ IF a.t.ub THEN a.t
        ELSE IF ~a.ok THEN [a.t EXCEPT !.phase = "true"] ELSE ByteStatement(a.t)
        : a \in {Tokenizer_advance(t)} })

(***************************************************************************)
(* Polygon triangulation and PLYMesh::triangle_mesh.  A face is the list   *)
(* of its vertex indices.  The angles that the ear clipping compares       *)
(* depend on the vertex positions; sharpest stands for the positions: with *)
(* "low" the angle grows with the place of the vertex in the face, with    *)
(* "high" it falls, so that the vertex clipped is the remaining one with   *)
(* the lowest, or highest, place.                                          *)
(***************************************************************************)
\* The rows of the vertex element of the PLY files.
NumVerts == 6

\* The place in ring of the vertex that the ear clipping picks: the one with the
\* smallest angle by the order sharpest.
BestVertex(ring, sharpest) ==
  IF sharpest = "low"
  THEN CHOOSE k \in 1..Len(ring) : \A j \in 1..Len(ring) : ring[k] <= ring[j]
  ELSE CHOOSE k \in 1..Len(ring) : \A j \in 1..Len(ring) : ring[k] >= ring[j]

\* The loop "while (n > 3)" of triangulate_polygon and the final triangle:
\* ring is the remaining vertices (places in the face, from 0) from first
\* along next[]; the result is the ints written to dst.
RECURSIVE EarClip(_, _, _)
EarClip(ring, indices, sharpest) ==
  IF Len(ring) <= 3
  THEN <<indices[ring[1] + 1], indices[ring[2] + 1], indices[ring[3] + 1]>>
  ELSE The({
    <<indices[ring[k] + 1],
      indices[ring[(k % Len(ring)) + 1] + 1],
      indices[ring[((k + Len(ring) - 2) % Len(ring)) + 1] + 1]>>
    \o EarClip(SubSeq(ring, 1, k - 1) \o SubSeq(ring, k + 1, Len(ring)), indices, sharpest)
    : k \in {BestVertex(ring, sharpest)} })

\* triangulate_polygon: [dst, ret], the ints it writes to dst from dst[0] on
\* and the value it returns.  After the loop n is 3, and n - 2 is returned.
triangulate_polygon(n, numVerts, indices, sharpest) ==
  IF n < 3 THEN [dst |-> <<>>, ret |-> 0]
  ELSE IF n = 3 THEN [dst |-> <<indices[1], indices[2], indices[3]>>, ret |-> 1]
  ELSE IF n = 4
  THEN [dst |-> <<indices[1], indices[2], indices[4], indices[3], indices[4], indices[2]>>,
        ret |-> 2]
  ELSE IF \E i \in 1..n : indices[i] < 0 \/ indices[i] >= numVerts
  THEN [dst |-> <<>>, ret |-> 0]
  ELSE [dst |-> EarClip([i \in 1..n |-> i - 1], indices, sharpest), ret |-> 3 - 2]

RECURSIVE num_triangles(_)
num_triangles(faces) ==
  IF faces = <<>> THEN 0
  ELSE (IF Len(faces[1]) >= 3 THEN Len(faces[1]) - 2 ELSE 0) + num_triangles(Tail(faces))

requires_triangulation(faces) == \E i \in 1..Len(faces) : Len(faces[i]) # 3

\* extract_list_property with no type conversion: the list data copied.
RECURSIVE extract_list_property(_)
extract_list_property(faces) ==
  IF faces = <<>> THEN <<>> ELSE faces[1] \o extract_list_property(Tail(faces))

\* The PLY file after its vertex element (num_vertices rows) and its face
\* element (faces) are loaded.  garbage is what the ints of a new int[] hold
\* before they are written, to is the cursor of extract_triangles as an
\* offset in ints, overrun records a write beyond the end of indices, and
\* calls is the history of the calls of triangulate_polygon.
PLYMesh(faces, sharpest, garbage) ==
  [faces |-> faces, sharpest |-> sharpest, garbage |-> garbage,
   num_vertices |-> NumVerts, num_indices |-> 0, indices |-> <<>>,
   phase |-> "loaded", faceIdx |-> 0, to |-> 0, overrun |-> FALSE, calls |-> <<>>]

\* PLYMesh::triangle_mesh from the face element on, up to the loop of
\* extract_triangles.
PLYMesh_triangle_mesh(m) ==
  IF requires_triangulation(m.faces)
  THEN [m EXCEPT !.num_indices = num_triangles(m.faces) * 3,
                 !.indices = [i \in 1..(num_triangles(m.faces) * 3) |-> m.garbage],
                 !.phase = IF m.faces = <<>> THEN "done" ELSE "extracting"]
  ELSE [m EXCEPT !.num_indices = Len(m.faces) * 3,
                 !.indices = extract_list_property(m.faces),
                 !.phase = "done"]

\* One turn of the loop over the faces in extract_triangles (source and
\* destination are both int, so no conversion is made).
extract_triangles(m) ==
  The({
    [m EXCEPT !.indices = [i \in 1..Len(m.indices) |->
                             IF i > m.to /\ i <= m.to + Len(r.dst) THEN r.dst[i - m.to]
                             ELSE m.indices[i]],
              !.overrun = @ \/ m.to + Len(r.dst) > Len(m.indices),
              !.to = @ + r.ret * 3,
              !.faceIdx = @ + 1,
              !.phase = IF m.faceIdx + 1 = Len(m.faces) THEN "done" ELSE @,
              !.calls = Append(@, [face |-> m.faces[m.faceIdx + 1], to |-> m.to,
                                   wrote |-> Len(r.dst) \div 3, ret |-> r.ret])]
    : r \in {triangulate_polygon(Len(m.faces[m.faceIdx + 1]), m.num_vertices,
                                  m.faces[m.faceIdx + 1], m.sharpest)} })

(***************************************************************************)
(* The global tables X, Y and Z of the XYZ matching functions, and two     *)
(* threads that each run Parser::parse.  A pointer is 0 for nullptr or the *)
(* number of the array it points to; arrays[k] is the set of the entries   *)
(* of array k written so far.  A thread is at "test" (the test of X, Y, Z  *)
(* in Parser::parse), inside spectrum_init at "newX", "newY", "newZ" and   *)
(* then "setX", "setY", "setZ" for entry i, at "read" when the parse reads *)
(* X[i], Y[i] and Z[i] in spectrum_to_xyz, or "done".                      *)
(***************************************************************************)
\* The entries of each table (60 in the source).
nSpectralSamples == 2

Threads == {1, 2}

SpectrumTables ==
  [X |-> 0, Y |-> 0, Z |-> 0, arrays |-> <<>>,
   at |-> [t \in Threads |-> "test"], i |-> [t \in Threads |-> 0],
   initialised |-> {},     \* history: the threads that ran spectrum_init
   unwritten |-> FALSE]    \* history: a read of an entry that was not written

\* if (X == nullptr || Y == nullptr || Z == nullptr) in Parser::parse.
Parser_parse_test(g, t) ==
  IF g.X = 0 \/ g.Y = 0 \/ g.Z = 0
  THEN [g EXCEPT !.at[t] = "newX", !.initialised = @ \cup {t}]
  ELSE [g EXCEPT !.at[t] = "read", !.i[t] = 0]

\* One statement of spectrum_init run by thread t.
spectrum_init(g, t) ==
  IF g.at[t] \in {"newX", "newY", "newZ"}
  THEN The({
    [g EXCEPT !.arrays = Append(@, {}),
              ![table] = Len(g.arrays) + 1,
              !.at[t] = IF table = "X" THEN "newY" ELSE IF table = "Y" THEN "newZ" ELSE "setX",
              !.i[t] = 0]
    : table \in {IF g.at[t] = "newX" THEN "X" ELSE IF g.at[t] = "newY" THEN "Y" ELSE "Z"} })
  ELSE The({
    [g EXCEPT !.arrays[g[table]] = @ \cup {g.i[t]},
              !.at[t] = IF table = "X" THEN "setY" ELSE IF table = "Y" THEN "setZ"
                        ELSE IF g.i[t] + 1 < nSpectralSamples THEN "setX" ELSE "read",
              !.i[t] = IF table = "Z" THEN (IF g.i[t] + 1 < nSpectralSamples THEN @ + 1 ELSE 0)
                       ELSE @]
    : table \in {IF g.at[t] = "setX" THEN "X" ELSE IF g.at[t] = "setY" THEN "Y" ELSE "Z"} })

\* One turn of the loop of spectrum_to_xyz run by thread t: it reads X[i],
\* Y[i] and Z[i].
spectrum_to_xyz(g, t) ==
  [g EXCEPT !.unwritten = @ \/ \E table \in {"X", "Y", "Z"} : g.i[t] \notin g.arrays[g[table]],
            !.at[t] = IF g.i[t] + 1 < nSpectralSamples THEN "read" ELSE "done",
            !.i[t] = @ + 1]

(***************************************************************************)
(* The Loader and the ownership of the Scene.  A pointer is "scene" or     *)
(* "null".  m_scene is Loader::m_scene, parser is Parser::m_scene of       *)
(* *m_parser, caller is what the caller keeps of the last non-null pointer *)
(* take_scene gave it; result is the last call of take_scene or            *)
(* borrow_scene with what it returned, takes counts the take_scene calls,  *)
(* and freed lists who has deleted the Scene.                              *)
(***************************************************************************)
Loader ==
  [m_scene |-> "null", parser |-> "scene", caller |-> "null", alive |-> TRUE,
   result |-> <<"none", "null">>, takes |-> 0, freed |-> <<>>]

\* Parser::take_scene as Loader::load calls it, and the assignment of its
\* result to Loader::m_scene; load does neither when parse returned false.
Loader_load(l, ok) ==
  IF ok THEN [l EXCEPT !.m_scene = l.parser, !.parser = "null"] ELSE l

\* A take_scene that leaves the pointer in the Loader.
Loader_take_scene_shared(l) ==
  [l EXCEPT !.result = <<"take_scene", l.m_scene>>,
            !.caller = IF l.m_scene # "null" THEN l.m_scene ELSE @,
            !.takes = @ + 1]

Loader_take_scene(l) ==
  [l EXCEPT !.result = <<"take_scene", l.m_scene>>,
            !.caller = IF l.m_scene # "null" THEN l.m_scene ELSE @,
            !.m_scene = "null",
            !.takes = @ + 1]

Loader_borrow_scene(l) == [l EXCEPT !.result = <<"borrow_scene", l.m_scene>>]

\* Loader::~Loader: delete m_scene, then delete m_parser, whose destructor
\* deletes Parser::m_scene.
Loader_destroy(l) ==
  [l EXCEPT !.alive = FALSE,
            !.freed = @ \o (IF l.m_scene # "null" THEN <<"Loader">> ELSE <<>>)
                        \o (IF l.parser # "null" THEN <<"Parser">> ELSE <<>>)]

(***************************************************************************)
(* The PLYReader: a read buffer of kPLYReadBufferSize chars and one spare  *)
(* char over a file whose data section holds the rows of its elements.     *)
(* Every value of the files here is one char wide: buf[i] is m_buf[i - 1], *)
(* and pos, end and bufEnd are m_pos - m_buf, m_end - m_buf and            *)
(* m_bufEnd - m_buf.  The fields origin and fetched are history: the file  *)
(* offset of the char at m_buf and the number of chars of the file in the  *)
(* buffer.                                                                 *)
(***************************************************************************)
kPLYReadBufferSize == 4

chNUL == 0
chNL == 10
chSP == 32
chMinus == 45
chZero == 48
chCR == 13

ply_is_whitespace(ch) == ch = chSP \/ ch = 9 \/ ch = chCR

ply_is_digit(ch) == ch >= chZero /\ ch <= chZero + 9

ply_is_letter(ch) == (ch >= 65 /\ ch <= 90) \/ (ch >= 97 /\ ch <= 122)

ply_is_safe_buffer_end(ch) == (ch > 0 /\ ch <= 32) \/ ch >= 127

\* fread of at most n chars at the position of the file.
PLY_fread(r, n) ==
  SubSeq(r.file, r.f + 1, IF r.f + n < Len(r.file) THEN r.f + n ELSE Len(r.file))

RECURSIVE RewindScan(_, _)
RewindScan(r, safe) ==
  IF safe >= r.end /\ (r.buf[safe + 1] = chNL \/ ~ply_is_safe_buffer_end(r.buf[safe + 1]))
    THEN RewindScan(r, safe - 1)
    ELSE safe

rewind_to_safe_char(r) ==
  IF ~r.atEOF /\ (r.buf[r.bufEnd] = chNL \/ ~ply_is_safe_buffer_end(r.buf[r.bufEnd]))
    THEN The({ IF safe < r.end
                 THEN [r |-> r, ok |-> FALSE]
                 ELSE [r |-> [r EXCEPT !.buf = [i \in 1..(kPLYReadBufferSize + 1) |->
                                          IF i = safe + 2 THEN chNUL
                                          ELSE IF i = kPLYReadBufferSize + 1 THEN r.buf[safe + 2]
                                          ELSE r.buf[i]],
                                       !.bufEnd = safe + 1],
                       ok |-> TRUE]
               : safe \in {RewindScan(r, r.bufEnd - 2)} })
    ELSE [r |-> [r EXCEPT !.buf[r.bufEnd + 1] = chNUL], ok |-> TRUE]

\* The buffer once the char that rewind_to_safe_char put aside is back.
Restored(r) ==
  IF r.bufEnd < kPLYReadBufferSize
    THEN [i \in 1..(kPLYReadBufferSize + 1) |->
            IF i = r.bufEnd + 1 THEN r.buf[kPLYReadBufferSize + 1]
            ELSE IF i = kPLYReadBufferSize + 1 THEN chNUL
            ELSE r.buf[i]]
    ELSE r.buf

\* The reader once refill_buffer has moved the keep chars from m_pos on to the
\* front of full and has read data behind them.
Refilled(r, full, keep, data) ==
  [r EXCEPT !.buf = [i \in 1..(kPLYReadBufferSize + 1) |->
                       IF i <= keep THEN full[r.pos + i]
                       ELSE IF i <= keep + Len(data) THEN data[i - keep]
                       ELSE full[i]],
            !.bufOffset = IF keep > 0 /\ r.pos > 0 THEN @ + r.pos ELSE @,
            !.origin = IF keep > 0 THEN @ + r.pos ELSE r.f,
            !.end = r.end - r.pos,
            !.pos = 0,
            !.f = @ + Len(data),
            !.atEOF = keep + Len(data) < kPLYReadBufferSize,
            !.bufEnd = keep + Len(data),
            !.fetched = keep + Len(data)]

PLYReader_refill_buffer(r) ==
  IF r.atEOF THEN [r |-> r, ok |-> FALSE]
  ELSE IF r.pos = 0 /\ r.end = r.bufEnd THEN [r |-> r, ok |-> FALSE]
  ELSE IF r.pos > kPLYReadBufferSize THEN [r |-> [r EXCEPT !.ub = TRUE], ok |-> FALSE]
  ELSE The({ IF ~q.inDataSection \/ q.fileType = "ASCII"
               THEN rewind_to_safe_char(q)
               ELSE [r |-> q, ok |-> TRUE]
             : q \in {Refilled(r, Restored(r), kPLYReadBufferSize - r.pos,
                               PLY_fread(r, r.pos))} })

RECURSIVE SkipWhitespace(_)
SkipWhitespace(r) ==
  IF ply_is_whitespace(r.buf[r.pos + 1]) THEN SkipWhitespace([r EXCEPT !.pos = @ + 1])
  ELSE IF r.pos = r.bufEnd
    THEN The({ IF q.ok THEN SkipWhitespace(q.r) ELSE q
               : q \in {PLYReader_refill_buffer([r EXCEPT !.end = r.pos])} })
    ELSE [r |-> [r EXCEPT !.end = r.pos], ok |-> TRUE]

PLYReader_advance(r) == SkipWhitespace([r EXCEPT !.pos = r.end])

\* The lines of the data section begin with no comment and no obj_info, so that
\* the two calls of match leave m_end at m_pos.
RECURSIVE SkipLine(_)
SkipLine(r) ==
  IF r.buf[r.pos + 1] # chNL
    THEN IF r.pos = r.bufEnd
           THEN The({ IF q.ok THEN SkipLine(q.r) ELSE q
                      : q \in {PLYReader_refill_buffer([r EXCEPT !.end = r.pos])} })
           ELSE SkipLine([r EXCEPT !.pos = @ + 1])
    ELSE [r |-> [r EXCEPT !.pos = r.pos + 1, !.end = r.pos + 1], ok |-> TRUE]

PLYReader_next_line(r) == SkipLine([r EXCEPT !.pos = r.end])

RECURSIVE ScanZeroes(_, _)
ScanZeroes(buf, pos) == IF buf[pos + 1] = chZero THEN ScanZeroes(buf, pos + 1) ELSE pos

\* The loop over the digits: localVal is an int, and numDigits counts them.
RECURSIVE ScanDigits(_, _, _, _)
ScanDigits(buf, pos, localVal, numDigits) ==
  IF ply_is_digit(buf[pos + 1])
    THEN ScanDigits(buf, pos + 1, localVal * 10 + (buf[pos + 1] - chZero), numDigits + 1)
    ELSE [pos |-> pos, localVal |-> localVal, numDigits |-> numDigits]

\* miniply's int_literal(m_pos, &m_end, val).
ply_int_literal(r) ==
  The({ The({ IF (d.numDigits = 0 /\ r.buf[start + 1] # chZero)
                   \/ ply_is_letter(r.buf[d.pos + 1]) \/ r.buf[d.pos + 1] = 95
                   \/ d.numDigits > 10
                 THEN [r |-> r, ok |-> FALSE, val |-> 0]
                 ELSE [r |-> [r EXCEPT !.end = d.pos], ok |-> TRUE,
                       val |-> IF r.buf[r.pos + 1] = chMinus THEN 0 - d.localVal ELSE d.localVal]
              : d \in {ScanDigits(r.buf, ScanZeroes(r.buf, start), 0, 0)} })
        : start \in {IF r.buf[r.pos + 1] \in {chMinus, 43} THEN r.pos + 1 ELSE r.pos} })

\* ascii_value for a property of type char: the literal, then advance(), whose
\* result nobody reads.
ascii_value(r) ==
  The({ IF ~lit.ok
          THEN [r |-> [r EXCEPT !.valid = FALSE], ok |-> FALSE, val |-> 0]
          ELSE [r |-> PLYReader_advance([lit.r EXCEPT !.valid = TRUE]).r, ok |-> TRUE,
                val |-> lit.val]
        : lit \in {ply_int_literal(r)} })

load_ascii_scalar_property(r) ==
  The({ IF ~v.ok THEN [r |-> v.r, ok |-> FALSE]
        ELSE [r |-> [v.r EXCEPT !.elementData = Append(@, v.val)], ok |-> TRUE]
        : v \in {ascii_value(r)} })

RECURSIVE AsciiItems(_, _)
AsciiItems(r, count) ==
  IF count = 0 THEN [r |-> r, ok |-> TRUE]
  ELSE The({ IF ~v.ok THEN [r |-> [v.r EXCEPT !.valid = FALSE], ok |-> FALSE]
             ELSE AsciiItems([v.r EXCEPT !.listData = Append(@, v.val)], count - 1)
             : v \in {ascii_value(r)} })

load_ascii_list_property(r) ==
  The({ IF ~lit.ok THEN [r |-> [r EXCEPT !.valid = FALSE], ok |-> FALSE]
        ELSE The({ IF ~(a.ok /\ lit.val >= 0)
                     THEN [r |-> [a.r EXCEPT !.valid = FALSE], ok |-> FALSE]
                     ELSE AsciiItems([a.r EXCEPT !.valid = TRUE, !.rowCount = Append(@, lit.val)],
                                     lit.val)
                   : a \in {PLYReader_advance(lit.r)} })
        : lit \in {ply_int_literal(r)} })

\* The test before every read of numBytes chars of a binary file.
Require(r, numBytes) ==
  IF r.pos + numBytes > r.bufEnd
    THEN The({ IF ~q.ok \/ q.r.pos + numBytes > q.r.bufEnd
                 THEN [r |-> [q.r EXCEPT !.valid = FALSE], ok |-> FALSE]
                 ELSE q
               : q \in {PLYReader_refill_buffer(r)} })
    ELSE [r |-> r, ok |-> TRUE]

load_binary_scalar_property(r) ==
  The({ IF ~q.ok THEN q
        ELSE [r |-> [q.r EXCEPT !.elementData = Append(@, q.r.buf[q.r.pos + 1]),
                                !.pos = @ + 1, !.end = q.r.pos + 1],
              ok |-> TRUE]
        : q \in {Require(r, 1)} })

load_binary_list_property(r) ==
  The({ IF ~q.ok THEN q
        ELSE IF q.r.buf[q.r.pos + 1] < 0 THEN [r |-> [q.r EXCEPT !.valid = FALSE], ok |-> FALSE]
        ELSE The({ IF ~p.ok THEN p
                   ELSE [r |-> [p.r EXCEPT !.rowCount = Append(@, q.r.buf[q.r.pos + 1]),
                                           !.listData = @ \o SubSeq(p.r.buf, p.r.pos + 1,
                                                                    p.r.pos + q.r.buf[q.r.pos + 1]),
                                           !.pos = @ + q.r.buf[q.r.pos + 1],
                                           !.end = p.r.pos + q.r.buf[q.r.pos + 1]],
                         ok |-> TRUE]
                   : p \in {Require([q.r EXCEPT !.pos = @ + 1, !.end = q.r.pos + 1],
                                    q.r.buf[q.r.pos + 1])} })
        : q \in {Require(r, 1)} })

PLYReader_has_element(r) == r.valid /\ r.currentElement < Len(r.elements)

\* PLYReader::element(): m_elements[m_currentElement].
PLYReader_element(r) == r.elements[r.currentElement + 1]

\* PLYElement::calculate_offsets: every property is one char wide.
fixedSize(elem) == \A i \in 1..Len(elem.properties) : elem.properties[i] = "scalar"

rowStride(elem) == Cardinality({i \in 1..Len(elem.properties) : elem.properties[i] = "scalar"})

\* One property of a row of load_variable_size_element: m_valid becomes what the
\* load of a scalar returned, and what the load of a list returned is dropped.
load_property(r, prop) ==
  IF prop = "scalar"
    THEN The({ [q.r EXCEPT !.valid = q.ok]
               : q \in {IF r.fileType = "ASCII" THEN load_ascii_scalar_property(r)
                        ELSE load_binary_scalar_property(r)} })
    ELSE IF r.fileType = "ASCII" THEN load_ascii_list_property(r).r
         ELSE load_binary_list_property(r).r

RECURSIVE load_row(_, _, _)
load_row(r, properties, i) ==
  IF i > Len(properties) THEN r
  ELSE load_row(load_property(r, properties[i]), properties, i + 1)

RECURSIVE load_rows(_, _, _)
load_rows(r, elem, row) ==
  IF row = elem.count THEN r
  ELSE load_rows(IF r.fileType = "ASCII"
                   THEN PLYReader_next_line(load_row(r, elem.properties, 1)).r
                   ELSE load_row(r, elem.properties, 1),
                 elem, row + 1)

load_variable_size_element(r, elem) ==
  [r |-> [load_rows(r, elem, 0) EXCEPT !.elementLoaded = TRUE], ok |-> TRUE]

\* The rows of a fixed-size element of an ASCII file, from the property i of the
\* row on.
RECURSIVE load_ascii_rows(_, _, _, _)
load_ascii_rows(r, elem, row, i) ==
  IF row = elem.count THEN [r |-> r, ok |-> TRUE]
  ELSE IF i > Len(elem.properties)
    THEN load_ascii_rows(PLYReader_next_line(r).r, elem, row + 1, 1)
  ELSE The({ IF ~q.ok THEN [r |-> [q.r EXCEPT !.valid = FALSE], ok |-> FALSE]
             ELSE load_ascii_rows(q.r, elem, row, i + 1)
             : q \in {load_ascii_scalar_property(r)} })

\* The loop that copies the numBytes chars of a fixed-size element of a binary
\* file: m_bufEnd - m_pos is unsigned, so that an m_pos behind m_bufEnd makes
\* every char that is left "available".
RECURSIVE load_binary_block(_, _)
load_binary_block(r, numBytes) ==
  IF numBytes = 0 THEN [r |-> r, ok |-> TRUE]
  ELSE IF r.pos > r.bufEnd THEN [r |-> [r EXCEPT !.ub = TRUE, !.valid = FALSE], ok |-> FALSE]
  ELSE The({ The({ IF ~q.ok
                     THEN IF numBytes > bytesAvailable
                            THEN [r |-> [q.r EXCEPT !.valid = FALSE], ok |-> FALSE]
                            ELSE [r |-> q.r, ok |-> TRUE]
                     ELSE load_binary_block(q.r, numBytes - bytesAvailable)
                   : q \in {PLYReader_refill_buffer(
                              [r EXCEPT !.elementData = @ \o SubSeq(r.buf, r.pos + 1,
                                                                    r.pos + bytesAvailable),
                                        !.pos = @ + bytesAvailable,
                                        !.end = r.pos + bytesAvailable])} })
             : bytesAvailable \in {IF r.bufEnd - r.pos > numBytes THEN numBytes
                                   ELSE r.bufEnd - r.pos} })

load_fixed_size_element(r, elem) ==
  The({ [r |-> [q.r EXCEPT !.elementLoaded = q.ok \/ r.elementLoaded], ok |-> q.ok]
        : q \in {IF r.fileType = "ASCII" THEN load_ascii_rows(r, elem, 0, 1)
                 ELSE load_binary_block(r, elem.count * rowStride(elem))} })

PLYReader_load_element(r) ==
  IF r.elementLoaded THEN [r |-> r, ok |-> TRUE]
  ELSE IF fixedSize(PLYReader_element(r))
    THEN load_fixed_size_element(r, PLYReader_element(r))
    ELSE load_variable_size_element(r, PLYReader_element(r))

RECURSIVE skip_lines(_, _)
skip_lines(r, count) ==
  IF count = 0 THEN r ELSE skip_lines(PLYReader_next_line(r).r, count - 1)

\* The walk of next_element over the rows of a variable-size element of a binary
\* file, from the property i of the row on.
RECURSIVE skip_rows(_, _, _, _)
skip_rows(r, elem, row, i) ==
  IF row = elem.count THEN r
  ELSE IF i > Len(elem.properties) THEN skip_rows(r, elem, row + 1, 1)
  ELSE The({ IF ~q.ok THEN q.r
             ELSE IF elem.properties[i] = "scalar"
               THEN skip_rows([q.r EXCEPT !.pos = @ + 1, !.end = q.r.pos + 1], elem, row, i + 1)
             ELSE IF q.r.buf[q.r.pos + 1] < 0 THEN [q.r EXCEPT !.valid = FALSE]
             ELSE The({ IF ~p.ok THEN p.r
                        ELSE skip_rows([p.r EXCEPT !.pos = @ + 1 + q.r.buf[q.r.pos + 1],
                                                   !.end = p.r.pos + 1 + q.r.buf[q.r.pos + 1]],
                                       elem, row, i + 1)
                        : p \in {Require(q.r, 1 + q.r.buf[q.r.pos + 1])} })
             : q \in {Require(r, 1)} })

\* The jump of next_element over a fixed-size element of a binary file.
skip_block(r, elementEnd) ==
  IF elementEnd >= kPLYReadBufferSize
    THEN PLYReader_refill_buffer([r EXCEPT !.bufOffset = @ + elementEnd,
                                           !.f = r.bufOffset + elementEnd,
                                           !.bufEnd = kPLYReadBufferSize,
                                           !.pos = kPLYReadBufferSize,
                                           !.end = kPLYReadBufferSize,
                                           !.fetched = 0]).r
    ELSE [r EXCEPT !.pos = elementEnd, !.end = elementEnd]

PLYReader_next_element(r) ==
  IF ~PLYReader_has_element(r) THEN r
  ELSE IF r.elementLoaded
    THEN [r EXCEPT !.currentElement = @ + 1, !.listData = <<>>, !.rowCount = <<>>,
                   !.elementData = <<>>, !.elementLoaded = FALSE]
  ELSE IF r.fileType = "ASCII"
    THEN skip_lines([r EXCEPT !.currentElement = @ + 1], PLYReader_element(r).count)
  ELSE IF fixedSize(PLYReader_element(r))
    THEN skip_block([r EXCEPT !.currentElement = @ + 1],
                    r.pos + rowStride(PLYReader_element(r)) * PLYReader_element(r).count)
  ELSE skip_rows([r EXCEPT !.currentElement = @ + 1], PLYReader_element(r), 0, 1)

\* The reader as PLYReader::PLYReader leaves it before its first refill_buffer.
PLYReader_new(fileType, elements, file) ==
  [file |-> file, fileType |-> fileType, elements |-> elements,
   buf |-> [i \in 1..(kPLYReadBufferSize + 1) |-> chNUL],
   bufEnd |-> kPLYReadBufferSize, pos |-> kPLYReadBufferSize, end |-> kPLYReadBufferSize,
   f |-> 0, atEOF |-> FALSE, bufOffset |-> 0, origin |-> 0, fetched |-> 0,
   inDataSection |-> FALSE, valid |-> TRUE, currentElement |-> 0, elementLoaded |-> FALSE,
   elementData |-> <<>>, listData |-> <<>>, rowCount |-> <<>>, ub |-> FALSE, ret |-> "none"]

\* The chars of a value: one char in a binary file, and its decimal digits in
\* an ASCII file.
EncodeValue(fileType, v) ==
  IF fileType # "ASCII" THEN <<v>>
  ELSE IF v < 0 THEN <<chMinus, chZero - v>>
  ELSE <<chZero + v>>

\* The chars of a row: the lines of an ASCII file end with CR LF.
RECURSIVE EncodeRow(_, _, _)
EncodeRow(fileType, row, i) ==
  IF i > Len(row) THEN (IF fileType = "ASCII" THEN <<chCR, chNL>> ELSE <<>>)
  ELSE (IF fileType = "ASCII" /\ i > 1 THEN <<chSP>> ELSE <<>>)
       \o EncodeValue(fileType, row[i]) \o EncodeRow(fileType, row, i + 1)

RECURSIVE EncodeRows(_, _, _)
EncodeRows(fileType, rows, i) ==
  IF i > Len(rows) THEN <<>>
  ELSE EncodeRow(fileType, rows[i], 1) \o EncodeRows(fileType, rows, i + 1)

\* The file offset of the first char of the element k, counted from zero: the
\* header is cut to its last char, the line feed after end_header.
RECURSIVE ElementStart(_, _, _)
ElementStart(fileType, elements, k) ==
  IF k = 0 THEN 1
  ELSE ElementStart(fileType, elements, k - 1)
       + Len(EncodeRows(fileType, elements[k].rows, 1))

RECURSIVE EncodeElements(_, _, _)
EncodeElements(fileType, elements, k) ==
  IF k > Len(elements) THEN <<>>
  ELSE EncodeRows(fileType, elements[k].rows, 1) \o EncodeElements(fileType, elements, k + 1)

PLYFile(fileType, elements) == <<chNL>> \o EncodeElements(fileType, elements, 1)

\* PLYReader::PLYReader on a file whose header is well formed: the first
\* refill_buffer, the header up to its last char, and advance() in an ASCII file.
PLYReader(fileType, elements) ==
  The({ IF fileType = "ASCII" THEN PLYReader_advance(q).r ELSE q
        : q \in {[PLYReader_refill_buffer(
                    PLYReader_new(fileType, elements, PLYFile(fileType, elements))).r
                  EXCEPT !.pos = 1, !.end = 1, !.inDataSection = TRUE]} })

\* Where the reader reads its next char from: the char at m_pos while the buffer
\* holds it, and the position of the file otherwise.
ReaderPos(r) == IF r.pos < r.fetched THEN r.origin + r.pos ELSE r.f

\* What PLYMesh::triangle_mesh makes of the face element it has just loaded:
\* gotFaces needs load_element() and find_indices, which needs has_element().
GotFaces(r) == r.ret = "true" /\ PLYReader_has_element(r)

(***************************************************************************)
(* int_literal: a decimal literal whose value is kept in an int of 32      *)
(* bits.  A number is held here as [hi, lo], its value being               *)
(* hi * 2^16 + lo with lo < 2^16, so that the ten digits of a literal      *)
(* that does not fit an int can still be multiplied out.                   *)
(***************************************************************************)
Half == 65536

is_digit(ch) == ch \in {"0", "1", "2", "3", "4", "5", "6", "7", "8", "9"}

is_letter(ch) == ch \in {"e", "x"}

DigitValue(ch) == CHOOSE d \in 0..9 : <<"0", "1", "2", "3", "4", "5", "6", "7", "8", "9">>[d + 1] = ch

\* v * 10 + d, exactly.
TimesTenPlus(v, d) ==
  [hi |-> v.hi * 10 + ((v.lo * 10 + d) \div Half), lo |-> (v.lo * 10 + d) % Half]

\* The number fits an int that is not negative.
FitsInt(v) == v.hi < (Half \div 2)

\* The int that holds the low 32 bits of the number, and the int -i.
ToInt(v) ==
  IF (v.hi % Half) >= (Half \div 2) THEN ((v.hi % Half) - Half) * Half + v.lo
  ELSE (v.hi % Half) * Half + v.lo

Negated(v) ==
  IF v.lo = 0 THEN [hi |-> (Half - (v.hi % Half)) % Half, lo |-> 0]
  ELSE [hi |-> (Half - 1) - (v.hi % Half), lo |-> Half - v.lo]

RECURSIVE SkipZeroes(_, _)
SkipZeroes(text, pos) == IF text[pos] = "0" THEN SkipZeroes(text, pos + 1) ELSE pos

\* The loop over the digits: localVal * 10 + digit overflows the int as soon as
\* the exact number no longer fits.
RECURSIVE Accumulate(_, _, _, _, _)
Accumulate(text, pos, localVal, numDigits, overflow) ==
  IF is_digit(text[pos])
    THEN Accumulate(text, pos + 1, TimesTenPlus(localVal, DigitValue(text[pos])), numDigits + 1,
                    overflow \/ ~FitsInt(TimesTenPlus(localVal, DigitValue(text[pos]))))
    ELSE [pos |-> pos, localVal |-> localVal, numDigits |-> numDigits, overflow |-> overflow]

\* int_literal(start, &end, &val) on the chars of text, which end with NUL:
\* pos counts from 1, and val is the int a build that wraps stores.
int_literal(text) ==
  The({ The({ IF (d.numDigits = 0 /\ text[start] # "0") \/ is_letter(text[d.pos])
                   \/ text[d.pos] = "_"
                 THEN [ok |-> FALSE, val |-> 0, end |-> 1, overflow |-> d.overflow]
               ELSE IF d.numDigits > 10
                 THEN [ok |-> FALSE, val |-> 0, end |-> 1, overflow |-> d.overflow]
               ELSE [ok |-> TRUE,
                     val |-> IF text[1] = "-" THEN ToInt(Negated(d.localVal))
                             ELSE ToInt(d.localVal),
                     end |-> d.pos, overflow |-> d.overflow]
              : d \in {Accumulate(text, SkipZeroes(text, start), [hi |-> 0, lo |-> 0], 0, FALSE)} })
        : start \in {IF text[1] \in {"-", "+"} THEN 2 ELSE 1} })

\* The literal before any call.
NoLiteral == [sign |-> "", digits |-> <<>>, follower |-> " ", at |-> "none", ret |-> FALSE,
              val |-> 0, end |-> 1]

(***************************************************************************)
(* The state machine: a Loader that loads one top-level file.              *)
(***************************************************************************)
VARIABLES
  literal,          \* the literal Tokenizer::int_literal is called on, and what it returned
  m_reader,         \* the PLYReader of one PLY file, and what its last load_element returned
  trimesh,          \* PLYMesh::triangle_mesh on the faces of one PLY file
  xyz,              \* the global tables X, Y, Z and the two threads that parse
  m_loader,         \* the Loader: who holds the pointer to the Scene, and what was freed
  m_tokenizer,      \* the byte-level tokenizer and the directives it has run
  script,           \* history: the items each file on the disk was written from
  pc,               \* "constructed", "parsing", "returned" or "crashed"
  ret,              \* what Loader::load returned: "none", "true" or "false"
  m_files,          \* m_fileData[0..m_includeDepth]; <<>> while m_fileData == nullptr
  m_error,          \* *m_error, NullError while m_error == nullptr
  raised,           \* history: the first error a set_error call asked to record
  late,             \* history: the set_error calls made with an error already recorded
  ub,               \* history: a read through the null m_fileData or m_buf has happened
  m_inWorld,
  m_statementIndex,
  m_transforms,
  m_attrs,
  m_scene,
  m_activeObject,
  m_firstShape,
  scopes,           \* history: for each open frame, the scalars of the frame below when it was pushed
  openers,          \* history: for each open frame, the index of the directive that pushed it
  statements,       \* history: the number of turns of the loop of Parser::parse so far
  scenario          \* history: the directives of the turns so far, each with the number
                    \* of lexemes after its keyword, while they follow one of Scenarios,
                    \* and OffScenario once they do not

vars == <<pc, ret, m_files, m_error, raised, late, ub, m_inWorld, m_statementIndex,
          m_transforms, m_attrs, m_scene, m_activeObject, m_firstShape, scopes,
          openers, statements, scenario, m_tokenizer, script, m_loader, xyz, trimesh,
          m_reader, literal>>

\* The variables outside the Loader and its Parser.
otherVars == <<xyz, trimesh, m_reader, literal>>

\* The value set_max_include_depth gave to m_maxIncludeDepth.
MaxIncludeDepth == 1
\* The most statements of an input.
MaxStatements == 3
\* The most statements of an input made of scope directives only.
MaxScopeStatements == 6

Names == {"a"}

IsPrefix(s, t) == Len(s) <= Len(t) /\ SubSeq(t, 1, Len(s)) = s

\* The directive sequences followed by the history variable scenario, each
\* directive with the number of lexemes after its keyword: a material named in
\* the preamble and used in the world section by a Shape with no parameters,
\* and the same with the material named inside the world section.
NamedInPreamble ==
  <<<<StatementIndex("MakeNamedMaterial"), 10>>, <<StatementIndex("WorldBegin"), 0>>,
    <<StatementIndex("NamedMaterial"), 3>>, <<StatementIndex("Shape"), 3>>,
    <<StatementIndex("WorldEnd"), 0>>>>

NamedInWorld ==
  <<<<StatementIndex("WorldBegin"), 0>>, <<StatementIndex("MakeNamedMaterial"), 10>>,
    <<StatementIndex("NamedMaterial"), 3>>, <<StatementIndex("Shape"), 3>>,
    <<StatementIndex("WorldEnd"), 0>>>>

Scenarios == {NamedInPreamble, NamedInWorld}

OffScenario == <<<<kInvalidIndex, 0>>>>

Scalars(f) ==
  [activeMaterial |-> f.activeMaterial, areaLight |-> f.areaLight,
   insideMedium |-> f.insideMedium, outsideMedium |-> f.outsideMedium,
   reverseOrientation |-> f.reverseOrientation]

LoaderInit ==
  /\ pc = "constructed"
  /\ ret = "none"
  /\ m_files = <<>>
  /\ m_error = NullError
  /\ raised = NullError
  /\ late = 0
  /\ ub = FALSE
  /\ m_inWorld = FALSE
  /\ m_statementIndex = kInvalidIndex
  /\ m_transforms = TransformStackInit
  /\ m_attrs = AttributeStackInit
  /\ m_scene = SceneInit
  /\ m_activeObject = kInvalidIndex
  /\ m_firstShape = kInvalidIndex
  /\ scopes = <<>>
  /\ openers = <<>>
  /\ statements = 0
  /\ scenario = <<>>
  /\ m_loader = Loader

\* The variables outside the Loader and its Parser before anything ran.
OtherInit ==
  /\ xyz = SpectrumTables
  /\ trimesh = PLYMesh(<<>>, "low", 0)
  /\ m_reader = PLYReader_new("ASCII", <<>>, <<>>)
  /\ literal = NoLiteral

Init ==
  /\ LoaderInit
  /\ m_tokenizer = Tokenizer(<<>>, 1, MaxIncludeDepth)
  /\ script = <<>>
  /\ OtherInit

\* The parser state at the start of a statement whose lexemes are chunk.
ParserState(chunk, spd) ==
  [tok |-> [L |-> chunk, pos |-> 1, end |-> 1, files |-> m_files, maxDepth |-> MaxIncludeDepth,
            error |-> m_error, raised |-> raised, late |-> late, params |-> <<>>, spd |-> spd],
   inWorld |-> m_inWorld, statementIndex |-> m_statementIndex,
   transforms |-> m_transforms, attrs |-> m_attrs, scene |-> m_scene,
   activeObject |-> m_activeObject, firstShape |-> m_firstShape]

\* One or more turns of the loop of Parser::parse over the lexemes chunk,
\* and the return of parse and Loader::load when the loop ends.
Step(chunk, spd, included) ==
  /\ pc = "parsing"
  /\ \E r \in {parse_loop(ParserState(chunk, spd), included)} :
     /\ pc' = IF r.running THEN "parsing" ELSE "returned"
     /\ ret' = IF r.running THEN "none" ELSE IF r.ok THEN "true" ELSE "false"
     /\ m_files' = r.P.tok.files
     /\ m_error' = r.P.tok.error
     /\ raised' = r.P.tok.raised
     /\ late' = r.P.tok.late
     /\ m_inWorld' = r.P.inWorld
     /\ m_statementIndex' = r.P.statementIndex
     /\ m_transforms' = r.P.transforms
     /\ m_attrs' = r.P.attrs
     /\ m_scene' = r.P.scene
     /\ m_activeObject' = r.P.activeObject
     /\ m_firstShape' = r.P.firstShape
     /\ scopes' = IF r.P.attrs.entry = m_attrs.entry + 1
                  THEN Append(scopes, Scalars(Top(m_attrs)))
                  ELSE SubSeq(scopes, 1, r.P.attrs.entry)
     /\ openers' = IF r.P.attrs.entry = m_attrs.entry + 1
                   THEN Append(openers, r.P.statementIndex)
                   ELSE SubSeq(openers, 1, r.P.attrs.entry)
     /\ \E turn \in {<<r.P.statementIndex, Len(chunk) - 2>>} :
          scenario' = IF \E s \in Scenarios : IsPrefix(Append(scenario, turn), s)
                      THEN Append(scenario, turn)
                      ELSE OffScenario
     /\ m_loader' = IF r.running THEN m_loader ELSE Loader_load(m_loader, r.ok)
  /\ statements' = statements + 1
  /\ UNCHANGED <<ub, m_tokenizer, script, otherVars>>

\* What follows the lexemes of a statement: the end of the file or the
\* directive keyword of the next statement.
Ends == {EOF, NEXT}

\* A statement of the directive name with the lexemes body after the keyword,
\* in an input of at most budget statements.
Statement(budget, name, bodies) ==
  /\ statements < budget
  /\ \E body \in bodies, last \in Ends :
       Step(<<W(name)>> \o body \o <<last>>, <<>>, <<>>)

\* Statement bodies.
NameStrs == {Str(n) : n \in Names}
F(n) == [i \in 1..n |-> NUM]
TypeParam(type) == Decl("string", "type") \o Str(type)
TexParam(name) == {Decl("texture", name) \o Str(n) : n \in Names}

\* The values given to a "spectrum I" parameter: inline pairs, complete,
\* odd and cut off by the end of the file; a quoted file name, bare and
\* bracketed, closed, too long for the tokenizer's temporary buffer, and
\* (in the top-level file) without its closing quote.
SpectrumValues ==
  { <<LB, NUM, NUM, RB>>, <<LB, NUM, RB>>, <<LB, NUM, NUM>>, <<LB, RB>>,
    Str("f.spd"), <<LB>> \o Str("f.spd") \o <<RB>>, <<LB>> \o Str("f.spd"),
    <<LB, Q, LONG, Q, RB>>, <<LB, Q, LONG, Q, NUM, NUM, RB>>, <<Q, LONG, Q>>, <<NUM>> }
  \cup (IF Len(m_files) = 1 THEN {<<LB, Q, W("f.spd")>>, <<Q, W("f.spd")>>} ELSE {})

\* The spectrum file f.spd: missing, empty, one pair, or a lone value.
SpdFiles == {<<>>, <<EOF>>, <<NUM, NUM, EOF>>, <<NUM, EOF>>}

\* The file an Include names: missing, empty, or starting with a directive.
IncludedFiles == {<<>>, <<EOF>>, <<NEXT>>}

(***************************************************************************)
(* Loader::load up to the first turn of the loop of Parser::parse.         *)
(* open_file calls set_error before m_fileData and m_buf exist when the    *)
(* filename is null or the file cannot be opened; set_error then reads     *)
(* m_fileData[m_includeDepth] and cursor_location reads m_buf through null *)
(* pointers.  The outcomes of that read are a crash, or an Error built     *)
(* from whatever was read.                                                 *)
(***************************************************************************)
Garbage(msg) == [filename |-> "?", offset |-> 0, message |-> msg, line |-> 1, column |-> 1]

Load ==
  /\ pc = "constructed"
  /\ m_loader.alive
  /\ \E filename \in {"null", "missing.pbrt", "scene.pbrt"}, first \in Ends \cup {NOSAFE} :
       IF filename = "scene.pbrt"
       THEN \* open_file returns refill_buffer(): false, with no error recorded,
            \* when the buffer is full and has no safe place to end.
            /\ m_files' = <<FileData(filename, FALSE, FALSE)>>
            /\ pc' = IF first = NEXT THEN "parsing" ELSE "returned"
            /\ ret' = IF first = NEXT THEN "none" ELSE IF first = EOF THEN "true" ELSE "false"
            /\ UNCHANGED <<m_error, raised, ub>>
       ELSE /\ first = EOF
            /\ ub' = TRUE
            /\ m_files' = m_files
            /\ \E crash \in BOOLEAN :
                 LET msg == IF filename = "null" THEN "No filename provided"
                            ELSE "Failed to open " \o filename IN
                 IF crash
                 THEN pc' = "crashed" /\ ret' = "none" /\ UNCHANGED <<m_error, raised>>
                 ELSE /\ pc' = "returned" /\ ret' = "false"
                      /\ m_error' = Garbage(msg) /\ raised' = Garbage(msg)
  /\ UNCHANGED <<late, m_inWorld, m_statementIndex, m_transforms, m_attrs, m_scene,
                 m_activeObject, m_firstShape, scopes, openers, statements, scenario,
                 m_tokenizer, script, otherVars>>
  /\ m_loader' = IF pc' = "returned" THEN Loader_load(m_loader, ret' = "true") ELSE m_loader

(***************************************************************************)
(* One turn of the loop of Parser::parse for each directive of kStatements *)
(* (a disjunct each), and one for a statement that starts with something   *)
(* else.                                                                   *)
(***************************************************************************)
Directive ==
  \/ /\ pc = "parsing"
     /\ Statement(MaxStatements, "Identity", {<<>>, <<LB, RB>>, <<LB>>})
  \/ /\ pc = "parsing"
     /\ Statement(MaxStatements, "Translate", {F(3), F(2)})
  \/ /\ pc = "parsing"
     /\ Statement(MaxStatements, "Scale", {F(3)})
  \/ /\ pc = "parsing"
     /\ Statement(MaxStatements, "Rotate", {F(4)})
  \/ /\ pc = "parsing"
     /\ Statement(MaxStatements, "LookAt", {F(9)})
  \/ /\ pc = "parsing"
     /\ Statement(MaxStatements, "CoordinateSystem", NameStrs)
  \/ /\ pc = "parsing"
     /\ Statement(MaxStatements, "CoordSysTransform", NameStrs \cup {Str("camera")})
  \/ /\ pc = "parsing"
     /\ Statement(MaxStatements, "Transform", {<<LB>> \o F(16) \o <<RB>>, F(16)})
  \/ /\ pc = "parsing"
     /\ Statement(MaxStatements, "ConcatTransform", {<<LB>> \o F(16) \o <<RB>>, <<LB>> \o F(16)})
  \/ /\ pc = "parsing"
     /\ Statement(MaxStatements, "ActiveTransform", {<<W("StartTime")>>, <<W("EndTime")>>, <<W("All")>>})
  \/ /\ pc = "parsing"
     /\ Statement(MaxStatements, "MakeNamedMedium", {Str(n) \o TypeParam("homogeneous") : n \in Names} \cup NameStrs)
  \/ /\ pc = "parsing"
     /\ Statement(MaxStatements, "MediumInterface", {Str(i) \o Str(o) : i \in Names \cup {""}, o \in Names \cup {""}})
  \/ /\ pc = "parsing"
     /\ statements < MaxStatements
     /\ \E last \in Ends, included \in IncludedFiles :
          Step(<<W("Include")>> \o Str("inc.pbrt") \o <<last>>, <<>>, included)
  \/ /\ pc = "parsing"
     /\ Statement(MaxStatements, "AttributeBegin", {<<>>})
  \/ /\ pc = "parsing"
     /\ Statement(MaxStatements, "AttributeEnd", {<<>>})
  \/ /\ pc = "parsing"
     /\ Statement(MaxStatements, "Shape",
       {Str("sphere"), Str("sphere") \o Decl("float", "radius") \o <<NUM>>,
        Str("sphere") \o Decl("float", "sigma") \o <<NUM>>, Str("plymesh"),
        Str("plymesh") \o Decl("string", "filename") \o Str("m.ply")}
       \cup {Str("sphere") \o p : p \in TexParam("Kd")}
       \cup {Str("plymesh") \o Decl("string", "filename") \o Str("m.ply") \o p : p \in TexParam("alpha")})
  \/ /\ pc = "parsing"
     /\ Statement(MaxStatements, "AreaLightSource", {Str("diffuse")})
  \* A light with no parameters, or a point light with a "spectrum I" parameter
  \* whose value may name the spectrum file f.spd.
  \/ /\ pc = "parsing"
     /\ statements < MaxStatements
     /\ \E b \in {<<body, <<>>>> : body \in {Str("point"), Str("goniometric")}}
                 \cup {<<Str("point") \o Decl("spectrum", "I") \o v, spd>> :
                         v \in SpectrumValues, spd \in SpdFiles},
           last \in Ends :
          Step(<<W("LightSource")>> \o b[1] \o <<last>>, b[2], <<>>)
  \/ /\ pc = "parsing"
     /\ Statement(MaxStatements, "Material",
       {Str("matte"), Str("none"), Str(""), Str("mix"), Str("nosuchmaterial")}
       \cup {Str("matte") \o p : p \in TexParam("Kd") \cup TexParam("sigma") \cup TexParam("bumpmap")}
       \cup {Str("mix") \o Decl("string", "namedmaterial1") \o Str(n) : n \in Names})
  \/ /\ pc = "parsing"
     /\ Statement(MaxStatements, "MakeNamedMaterial",
       {Str(n) \o TypeParam("matte") : n \in Names} \cup NameStrs
       \cup {Str(n) \o TypeParam("mix") \o Decl("string", "namedmaterial2") \o Str(m) : n \in Names, m \in Names})
  \/ /\ pc = "parsing"
     /\ Statement(MaxStatements, "NamedMaterial", NameStrs)
  \/ /\ pc = "parsing"
     /\ Statement(MaxStatements, "ObjectBegin", NameStrs)
  \/ /\ pc = "parsing"
     /\ Statement(MaxStatements, "ObjectEnd", {<<>>})
  \/ /\ pc = "parsing"
     /\ Statement(MaxStatements, "ObjectInstance", NameStrs)
  \/ /\ pc = "parsing"
     /\ Statement(MaxStatements, "Texture",
       {Str(n) \o Str(dt) \o Str("constant") : n \in Names, dt \in {"float", "spectrum", "color"}}
       \cup {Str(n) \o Str("spectrum") \o Str("scale") \o p : n \in Names, p \in TexParam("tex1")})
  \/ /\ pc = "parsing"
     /\ Statement(MaxStatements, "TransformBegin", {<<>>})
  \/ /\ pc = "parsing"
     /\ Statement(MaxStatements, "TransformEnd", {<<>>})
  \/ /\ pc = "parsing"
     /\ Statement(MaxStatements, "ReverseOrientation", {<<>>})
  \/ /\ pc = "parsing"
     /\ Statement(MaxStatements, "WorldEnd", {<<>>})
  \/ /\ pc = "parsing"
     /\ Statement(MaxStatements, "Accelerator", {Str("bvh"), Str("kdtree")})
  \/ /\ pc = "parsing"
     /\ Statement(MaxStatements, "Camera", {Str("perspective"), Str("orthographic")})
  \/ /\ pc = "parsing"
     /\ Statement(MaxStatements, "Film",
                  {Str("image"), Str("image") \o Decl("string", "filename") \o Str("a")})
  \/ /\ pc = "parsing"
     /\ Statement(MaxStatements, "Integrator", {Str("path"), Str("whitted")})
  \/ /\ pc = "parsing"
     /\ Statement(MaxStatements, "PixelFilter", {Str("box"), Str("gaussian")})
  \/ /\ pc = "parsing"
     /\ Statement(MaxStatements, "Sampler", {Str("halton"), Str("random")})
  \/ /\ pc = "parsing"
     /\ Statement(MaxStatements, "TransformTimes", {F(2)})
  \/ /\ pc = "parsing"
     /\ Statement(MaxStatements, "WorldBegin", {<<>>, <<NUM>>})

\* A statement that starts with no directive keyword.
UnknownStatement ==
  /\ pc = "parsing"
  /\ statements < MaxStatements
  /\ \E c \in {<<NUM>>, <<W("Foo")>>, <<RB>>}, last \in Ends : Step(c \o <<last>>, <<>>, <<>>)

Next == Load \/ Directive \/ UnknownStatement

Spec == Init /\ [][Next]_vars

(***************************************************************************)
(* Longer inputs made of the world, scope, object, material and shape      *)
(* directives only.                                                        *)
(***************************************************************************)
ScopeDirective ==
  \/ /\ pc = "parsing"
     /\ Statement(MaxScopeStatements, "WorldBegin", {<<>>})
  \/ /\ pc = "parsing"
     /\ Statement(MaxScopeStatements, "WorldEnd", {<<>>})
  \/ /\ pc = "parsing"
     /\ Statement(MaxScopeStatements, "AttributeBegin", {<<>>})
  \/ /\ pc = "parsing"
     /\ Statement(MaxScopeStatements, "AttributeEnd", {<<>>})
  \/ /\ pc = "parsing"
     /\ Statement(MaxScopeStatements, "ObjectBegin", NameStrs)
  \/ /\ pc = "parsing"
     /\ Statement(MaxScopeStatements, "ObjectEnd", {<<>>})
  \/ /\ pc = "parsing"
     /\ Statement(MaxScopeStatements, "MakeNamedMaterial", {Str(n) \o TypeParam("matte") : n \in Names})
  \/ /\ pc = "parsing"
     /\ Statement(MaxScopeStatements, "NamedMaterial", NameStrs)
  \/ /\ pc = "parsing"
     /\ Statement(MaxScopeStatements, "Shape",
                  {Str("sphere"), Str("sphere") \o Decl("float", "sigma") \o <<NUM>>})
  \/ /\ pc = "parsing"
     /\ Statement(MaxScopeStatements, "AreaLightSource", {Str("diffuse")})
  \/ /\ pc = "parsing"
     /\ Statement(MaxScopeStatements, "ReverseOrientation", {<<>>})
  \/ /\ pc = "parsing"
     /\ Statement(MaxScopeStatements, "Material", {Str("matte")})
  \/ /\ pc = "parsing"
     /\ Statement(MaxScopeStatements, "MakeNamedMedium", {Str(n) \o TypeParam("homogeneous") : n \in Names})
  \/ /\ pc = "parsing"
     /\ Statement(MaxScopeStatements, "MediumInterface", {Str(n) \o Str("") : n \in Names})
  \/ /\ pc = "parsing"
     /\ Statement(MaxScopeStatements, "ObjectInstance", NameStrs)
  \/ /\ pc = "parsing"
     /\ Statement(MaxScopeStatements, "TransformBegin", {<<>>})
  \/ /\ pc = "parsing"
     /\ Statement(MaxScopeStatements, "TransformEnd", {<<>>})
  \/ /\ pc = "parsing"
     /\ Statement(MaxScopeStatements, "Camera", {Str("orthographic")})
  \/ /\ pc = "parsing"
     /\ Statement(MaxScopeStatements, "Translate", {F(3)})

ScopeNext == Load \/ ScopeDirective

SpecScopes == Init /\ [][ScopeNext]_vars

(***************************************************************************)
(* The calls a program makes on a Loader: take_scene and borrow_scene      *)
(* after load has returned, and the destructor before load or after it,    *)
(* with inputs of a few directives.                                        *)
(***************************************************************************)
\* The most calls of take_scene.
MaxTakes == 2

parserVars == <<pc, ret, m_files, m_error, raised, late, ub, m_inWorld, m_statementIndex,
                m_transforms, m_attrs, m_scene, m_activeObject, m_firstShape, scopes,
                openers, statements, scenario, m_tokenizer, script>>

LoaderDirective ==
  \/ /\ pc = "parsing"
     /\ Statement(MaxStatements, "WorldBegin", {<<>>})
  \/ /\ pc = "parsing"
     /\ Statement(MaxStatements, "Shape", {Str("sphere"), Str("plymesh")})
  \/ /\ pc = "parsing"
     /\ Statement(MaxStatements, "Camera", {Str("perspective"), Str("orthographic")})
  \/ /\ pc = "parsing"
     /\ Statement(MaxStatements, "WorldEnd", {<<>>})

TakeScene ==
  /\ pc = "returned"
  /\ m_loader.alive
  /\ m_loader.takes < MaxTakes
  /\ m_loader' = Loader_take_scene(m_loader)
  /\ UNCHANGED <<parserVars, otherVars>>

BorrowScene ==
  /\ pc = "returned"
  /\ m_loader.alive
  /\ m_loader' = Loader_borrow_scene(m_loader)
  /\ UNCHANGED <<parserVars, otherVars>>

Destroy ==
  /\ pc \in {"constructed", "returned"}
  /\ m_loader.alive
  /\ m_loader' = Loader_destroy(m_loader)
  /\ UNCHANGED <<parserVars, otherVars>>

(***************************************************************************)
(* PLYMesh::triangle_mesh on PLY files of NumVerts vertices and of at most *)
(* MaxFaces faces.                                                         *)
(***************************************************************************)
MaxFaces == 2

Faces ==
  {<<0, 1>>, <<0, 1, 2>>, <<0, 1, 7>>, <<0, -1, 2>>, <<0, 1, 2, 3>>, <<0, 1, 2, 7>>,
   <<0, 1, 2, 3, 4>>, <<4, 2, 0, 3, 1>>, <<0, 1, 2, 3, 7>>, <<0, 1, 2, 3, 4, 5>>}

\* What the ints of a new array may hold.
Uninitialised == {0, 7}

InitMesh ==
  /\ LoaderInit
  /\ m_tokenizer = Tokenizer(<<>>, 1, MaxIncludeDepth)
  /\ script = <<>>
  /\ xyz = SpectrumTables
  /\ m_reader = PLYReader_new("ASCII", <<>>, <<>>)
  /\ literal = NoLiteral
  /\ \E n \in 1..MaxFaces : \E faces \in [1..n -> Faces], sharpest \in {"low", "high"},
                              garbage \in Uninitialised :
       trimesh = PLYMesh(faces, sharpest, garbage)

TriangleMesh ==
  /\ trimesh.phase = "loaded"
  /\ trimesh' = PLYMesh_triangle_mesh(trimesh)
  /\ UNCHANGED <<parserVars, m_loader, xyz, m_reader, literal>>

ExtractTriangles ==
  /\ trimesh.phase = "extracting"
  /\ trimesh' = extract_triangles(trimesh)
  /\ UNCHANGED <<parserVars, m_loader, xyz, m_reader, literal>>

NextMesh == TriangleMesh \/ ExtractTriangles

SpecMesh == InitMesh /\ [][NextMesh]_vars

\* Two Loaders that start to parse on two threads.
allLoaderVars == <<parserVars, m_loader>>

Test(t) ==
  /\ xyz.at[t] = "test"
  /\ xyz' = Parser_parse_test(xyz, t)
  /\ UNCHANGED <<allLoaderVars, trimesh, m_reader, literal>>

SpectrumInit(t) ==
  /\ xyz.at[t] \in {"newX", "newY", "newZ", "setX", "setY", "setZ"}
  /\ xyz' = spectrum_init(xyz, t)
  /\ UNCHANGED <<allLoaderVars, trimesh, m_reader, literal>>

Read(t) ==
  /\ xyz.at[t] = "read"
  /\ xyz' = spectrum_to_xyz(xyz, t)
  /\ UNCHANGED <<allLoaderVars, trimesh, m_reader, literal>>

(***************************************************************************)
(* A PLYReader over PLY files of at most MaxElements elements, whose       *)
(* caller loads or skips the elements one after the other.                 *)
(***************************************************************************)
MaxElements == 3

\* A fixed-size element of count rows of three scalar properties.
Vertices(count) ==
  [count |-> count, properties |-> <<"scalar", "scalar", "scalar">>,
   rows |-> [i \in 1..count |-> <<2, 0, 1>>]]

\* A variable-size element of one list property, and one of a list and a scalar.
Lists(rows) == [count |-> Len(rows), properties |-> <<"list">>, rows |-> rows]

ListsAndScalars(rows) ==
  [count |-> Len(rows), properties |-> <<"list", "scalar">>, rows |-> rows]

Elements ==
  {Vertices(1), Vertices(2), Vertices(3),
   Lists(<<<<3, 0, 1, 2>>>>),
   Lists(<<<<3, 0, 1, 2>>, <<3, 2, 1, 0>>>>),
   Lists(<<<<-1>>, <<3, 0, 1, 2>>>>),
   Lists(<<<<3, 0, 1, 2>>, <<-1>>>>),
   ListsAndScalars(<<<<3, 0, 1, 2, 1>>>>),
   ListsAndScalars(<<<<-1, 1>>>>)}

FileTypes == {"ASCII", "Binary", "BinaryBigEndian"}

\* The list property is the first property of the rows that have one.
NegativeCount(elem) ==
  elem.properties[1] = "list" /\ \E i \in 1..Len(elem.rows) : elem.rows[i][1] < 0

InitReader ==
  /\ LoaderInit
  /\ m_tokenizer = Tokenizer(<<>>, 1, MaxIncludeDepth)
  /\ script = <<>>
  /\ xyz = SpectrumTables
  /\ trimesh = PLYMesh(<<>>, "low", 0)
  /\ literal = NoLiteral
  /\ \E n \in 2..MaxElements : \E elements \in [1..n -> Elements], fileType \in FileTypes :
       m_reader = PLYReader(fileType, elements)

LoadElement ==
  /\ PLYReader_has_element(m_reader)
  /\ ~m_reader.elementLoaded
  /\ m_reader.ret = "none"
  /\ m_reader' = The({ [q.r EXCEPT !.ret = IF q.ok THEN "true" ELSE "false"]
                       : q \in {PLYReader_load_element(m_reader)} })
  /\ UNCHANGED <<allLoaderVars, xyz, trimesh, literal>>

NextElement ==
  /\ PLYReader_has_element(m_reader)
  /\ m_reader' = [PLYReader_next_element(m_reader) EXCEPT !.ret = "none"]
  /\ UNCHANGED <<allLoaderVars, xyz, trimesh, literal>>

NextReader == LoadElement \/ NextElement

SpecReader == InitReader /\ [][NextReader]_vars

(***************************************************************************)
(* Tokenizer::int_literal on literals of at most MaxDigits digits.         *)
(***************************************************************************)
MaxDigits == 11

\* The digits of the literals: a first digit and one digit repeated behind it,
\* and the numbers around the two ends of the range of an int.
LiteralDigits ==
  {[i \in 1..n |-> IF i = 1 THEN first ELSE fill] :
     n \in 1..MaxDigits, first \in {0, 1, 2, 4, 9}, fill \in {0, 1, 4, 7, 9}}
  \cup {<<2, 1, 4, 7, 4, 8, 3, 6, 4, 7>>, <<2, 1, 4, 7, 4, 8, 3, 6, 4, 8>>,
        <<2, 1, 4, 7, 4, 8, 3, 6, 4, 9>>, <<4, 2, 9, 4, 9, 6, 7, 2, 9, 5>>,
        <<4, 2, 9, 4, 9, 6, 7, 2, 9, 6>>, <<3, 0, 0, 0, 0, 0, 0, 0, 0, 0>>}

\* The chars of the literal, the char behind it and the NUL that ends the buffer.
LiteralText(sign, digits, follower) ==
  (IF sign = "" THEN <<>> ELSE <<sign>>)
  \o [i \in 1..Len(digits) |-> <<"0", "1", "2", "3", "4", "5", "6", "7", "8", "9">>[digits[i] + 1]]
  \o <<follower, NUL>>

\* The number the digits spell, exactly.
RECURSIVE Magnitude(_, _)
Magnitude(digits, n) ==
  IF n = 0 THEN [hi |-> 0, lo |-> 0]
  ELSE TimesTenPlus(Magnitude(digits, n - 1), digits[n])

\* The value of the literal lies in the range of a 32-bit signed int.
InIntRange(sign, digits) ==
  \/ FitsInt(Magnitude(digits, Len(digits)))
  \/ sign = "-" /\ Magnitude(digits, Len(digits)) = [hi |-> Half \div 2, lo |-> 0]

InitLiteral ==
  /\ LoaderInit
  /\ m_tokenizer = Tokenizer(<<>>, 1, MaxIncludeDepth)
  /\ script = <<>>
  /\ xyz = SpectrumTables
  /\ trimesh = PLYMesh(<<>>, "low", 0)
  /\ m_reader = PLYReader_new("ASCII", <<>>, <<>>)
  /\ \E sign \in {"", "-", "+"}, digits \in LiteralDigits, follower \in {" ", "x"} :
       literal = [NoLiteral EXCEPT !.sign = sign, !.digits = digits, !.follower = follower,
                                   !.at = "start"]

\* Tokenizer::int_literal(&val).  The overflow of an int is undefined: the
\* build either wraps, or traps at the overflow.
IntLiteral ==
  /\ literal.at = "start"
  /\ \E q \in {int_literal(LiteralText(literal.sign, literal.digits, literal.follower))} :
       \E outcome \in (IF q.overflow THEN {"wraps", "traps"} ELSE {"defined"}) :
         literal' = IF outcome = "traps" THEN [literal EXCEPT !.at = "trapped"]
                    ELSE [literal EXCEPT !.at = "done", !.ret = q.ok, !.val = q.val,
                                         !.end = q.end]
  /\ UNCHANGED <<allLoaderVars, xyz, trimesh, m_reader>>

SpecLiteral == InitLiteral /\ [][IntLiteral]_vars

NextThreads == \E t \in Threads : Test(t) \/ SpectrumInit(t) \/ Read(t)

SpecThreads == Init /\ [][NextThreads]_vars

LoaderNext == Load \/ LoaderDirective \/ TakeScene \/ BorrowScene \/ Destroy

SpecLoader == Init /\ [][LoaderNext]_vars


(***************************************************************************)
(* The byte-level tokenizer under Parser::parse: the files on the disk are *)
(* written from items (a directive with its arguments, or a comment), each *)
(* followed by a separator, and parsed with a small buffer.                *)
(***************************************************************************)
BufCapacities == {6, 7}
IncludeDepths == {0, 1, 2}
MaxItems == 3
MaxExecuted == 8

Items == {"a", "bb", "s", "Include", "#"}

ItemChars(item) ==
  CASE item = "a" -> <<"a">>
    [] item = "bb" -> <<"b", "b">>
    [] item = "s" -> <<"s", " ", "\"", "x", " ", "y", "\"">>
    [] item = "Include" -> <<"I", " ", "\"", "f", "\"">>
    [] item = "#" -> <<"#", "x", " ", "y", NL>>

Separators == {<<>>, <<" ">>, <<" ", " ">>}

\* A file reads as its items do when no two keywords touch.
WellFormed(items) ==
  \A i \in 1..(Len(items) - 1) : items[i].item \in {"a", "bb"} => items[i].sep # <<>>

Scripts(n) == UNION { [1..k -> [item : Items, sep : Separators]] : k \in 0..n }

RECURSIVE Chars(_)
Chars(items) ==
  IF items = <<>> THEN <<>>
  ELSE ItemChars(items[1].item) \o items[1].sep \o Chars(Tail(items))

\* The file f is absent, or one of a few files, one of which includes itself.
IncludedScripts ==
  {<<[item |-> "bb", sep |-> <<>>]>>,
   <<[item |-> "bb", sep |-> <<" ">>], [item |-> "a", sep |-> <<NL>>]>>,
   <<[item |-> "a", sep |-> <<" ">>], [item |-> "Include", sep |-> <<" ">>],
     [item |-> "bb", sep |-> <<>>]>>}

InitBuffer ==
  /\ LoaderInit
  /\ OtherInit
  /\ \E main \in {m \in Scripts(MaxItems) : WellFormed(m)},
        included \in IncludedScripts \cup {<<>>},
        bufCapacity \in BufCapacities, maxIncludeDepth \in IncludeDepths :
       /\ script = IF included # <<>> THEN [n \in {"main", "f"} |-> IF n = "main" THEN main ELSE included]
                   ELSE [n \in {"main"} |-> main]
       /\ m_tokenizer = Tokenizer([n \in DOMAIN script |-> Chars(script[n])],
                                  bufCapacity, maxIncludeDepth)

loaderVars == <<pc, ret, m_files, m_error, raised, late, ub, m_inWorld, m_statementIndex,
                m_transforms, m_attrs, m_scene, m_activeObject, m_firstShape, scopes,
                openers, statements, scenario, m_loader>>

\* Loader::load up to the loop of Parser::parse: open_file on the main file.
Open ==
  /\ m_tokenizer.phase = "constructed"
  /\ \E r \in {Tokenizer_open_file(m_tokenizer, "main")} :
       m_tokenizer' = [r.t EXCEPT !.phase = IF r.ok THEN "parsing" ELSE "false"]
  /\ UNCHANGED <<loaderVars, script, otherVars>>

\* One turn of the loop of Parser::parse.  What a read beyond the end of the
\* array finds is not determined by the input: the process may stop there,
\* or the parse may go on to return either result.
Turn ==
  /\ m_tokenizer.phase = "parsing"
  /\ Len(m_tokenizer.executed) < MaxExecuted
  /\ \E r \in {ByteTurn(m_tokenizer)} :
       \E phase \in IF r.ub THEN {"crashed", "true", "false"} ELSE {r.phase} :
         m_tokenizer' = [r EXCEPT !.phase = phase]
  /\ UNCHANGED <<loaderVars, script, otherVars>>

NextBuffer == Open \/ Turn

SpecBuffer == InitBuffer /\ [][NextBuffer]_vars

(***************************************************************************)
(* Properties.                                                             *)
(***************************************************************************)
\* The table flag of the directive with the 0-based index i for a section.
FlagAllows(inWorld, i) ==
  IF inWorld THEN kStatements[i + 1].inWorld ELSE kStatements[i + 1].inPreamble

\* C1: a directive whose table flag does not allow the current section
\* (inPreamble before WorldBegin and after WorldEnd, inWorld in between)
\* latches an error, makes parse return false, and leaves the Scene, the
\* transform stack and the attribute stack unchanged.
C1_DirectiveGating ==
  [][ (/\ pc = "parsing"
       /\ m_statementIndex' # kInvalidIndex
       /\ ~FlagAllows(m_inWorld, m_statementIndex'))
      => (/\ pc' = "returned" /\ ret' = "false"
          /\ m_error' # NullError
          /\ m_inWorld' = m_inWorld
          /\ m_scene' = m_scene
          /\ m_transforms' = m_transforms
          /\ m_attrs' = m_attrs) ]_vars

\* A Camera directive met in the world section after a WorldEnd/WorldBegin
\* or a first WorldBegin has been rejected.
C1_Witness ==
  /\ pc = "returned" /\ ret = "false"
  /\ m_inWorld
  /\ m_statementIndex = StatementIndex("Camera")
  /\ m_error.message = "Camera is not allowed in the world section"

\* C2: the recorded error is the one the first set_error call asked to
\* record; later calls leave its filename, offset, message, line and column
\* as they are.
C2_FirstErrorWins == m_error = raised

\* A failed parse during which two more set_error calls followed the first.
C2_Witness ==
  /\ pc = "returned" /\ ret = "false"
  /\ m_files # <<>>
  /\ m_error # NullError
  /\ late >= 2

\* C3: once the file is open, parse returns false exactly when an error is
\* latched at the return.
C3_ReturnsFalseIffErrorLatched ==
  (pc = "returned" /\ m_files # <<>>) => ((ret = "false") <=> (m_error # NullError))

\* C4: when the top-level file cannot be opened, load returns false with an
\* Error that carries a message, and reporting it reads no tokenizer state
\* that open_file has not created.
C4_UnopenedFileReported ==
  (pc # "constructed" /\ m_files = <<>>)
    => (/\ pc = "returned" /\ ret = "false"
        /\ m_error # NullError /\ m_error.message # ""
        /\ ~ub)

\* C5: attribute scopes do not leak.  In every step in which AttributeEnd or
\* ObjectEnd succeeds, the scalars of the frame that becomes current
\* (activeMaterial, areaLight, insideMedium, outsideMedium,
\* reverseOrientation) are those the current frame had just before the
\* AttributeBegin or ObjectBegin that pushed the frame now popped, which
\* scopes recorded at that push.
ScopeEnds == {StatementIndex("AttributeEnd"), StatementIndex("ObjectEnd")}

C5_ScopesDoNotLeak ==
  [][ (/\ pc = "parsing"
       /\ m_statementIndex' \in ScopeEnds
       /\ ret' # "false")
      => (/\ m_attrs.entry >= 1
          /\ Len(scopes) = m_attrs.entry
          /\ m_attrs'.entry = m_attrs.entry - 1
          /\ Scalars(Top(m_attrs')) = scopes[Len(scopes)]) ]_vars

\* An AttributeEnd or ObjectEnd has just succeeded, and the frame it popped
\* (still in the array above the current one) differs from the current frame
\* in each of material, area light, inside medium and orientation.
C5_Witness ==
  /\ pc # "constructed" /\ ret # "false" /\ m_error = NullError
  /\ m_statementIndex \in ScopeEnds
  /\ m_attrs.entry = 0
  /\ m_attrs.attrs[2].activeMaterial # Top(m_attrs).activeMaterial
  /\ m_attrs.attrs[2].areaLight # Top(m_attrs).areaLight
  /\ m_attrs.attrs[2].reverseOrientation # Top(m_attrs).reverseOrientation

\* C6: whenever AttributeBegin or ObjectBegin pushes a frame, the
\* floatTextures, spectrumTextures and materials lists of the new top frame
\* are empty, also when WorldEnd and a second WorldBegin occurred while
\* attribute scopes were open.
C6_PushedFrameHasNoNames ==
  [][ (/\ pc = "parsing"
       /\ m_attrs'.entry = m_attrs.entry + 1)
      => (/\ Top(m_attrs').floatTextures = <<>>
          /\ Top(m_attrs').spectrumTextures = <<>>
          /\ Top(m_attrs').materials = <<>>) ]_vars

\* The frame AttributeBegin has just pushed after a second WorldBegin still
\* lists a material defined in a scope that the WorldBegin discarded.
C6_Witness ==
  /\ pc = "parsing" /\ m_inWorld
  /\ m_statementIndex = StatementIndex("AttributeBegin")
  /\ m_attrs.entry = 1
  /\ Top(m_attrs).materials # <<>>

\* C7: find_material returns the most recently defined material with the
\* requested name among those visible: frames from the current top toward
\* the base, and within one frame a later definition before an earlier one.
C7_FindsMostRecentDefinition ==
  \A n \in Names :
    find_material(ParserState(<<>>, <<>>), n)
      = find_material_newest_first(ParserState(<<>>, <<>>), n)

\* The current frame holds two materials of one name and find_material
\* returns the one defined first.
C7_Witness ==
  /\ pc = "parsing"
  /\ \E n \in Names :
       /\ LastNamed(Top(m_attrs).materials, m_scene.materials, n)
            > FirstNamed(Top(m_attrs).materials, m_scene.materials, n)
       /\ find_material(ParserState(<<>>, <<>>), n)
            = FirstNamed(Top(m_attrs).materials, m_scene.materials, n)

\* C8: at every point of a parse and at its end, every handle stored in a
\* shape, instance, material, texture or attribute frame is INVALID_INDEX
\* or less than the current length of the Scene vector of its kind.
Range(seq) == {seq[i] : i \in DOMAIN seq}

ValidHandle(h, vec) == h = kInvalidIndex \/ (0 <= h /\ h < Len(vec))

C8_HandlesInRange ==
  /\ \A s \in Range(m_scene.shapes) :
       /\ ValidHandle(s.material, m_scene.materials)
       /\ ValidHandle(s.areaLight, m_scene.areaLights)
       /\ ValidHandle(s.insideMedium, m_scene.mediums)
       /\ ValidHandle(s.outsideMedium, m_scene.mediums)
       /\ ValidHandle(s.object, m_scene.objects)
       /\ ValidHandle(s.alpha, m_scene.textures)
       /\ ValidHandle(s.shadowalpha, m_scene.textures)
  /\ \A i \in Range(m_scene.instances) :
       /\ ValidHandle(i.object, m_scene.objects)
       /\ ValidHandle(i.areaLight, m_scene.areaLights)
       /\ ValidHandle(i.insideMedium, m_scene.mediums)
       /\ ValidHandle(i.outsideMedium, m_scene.mediums)
  /\ \A m \in Range(m_scene.materials) :
       /\ ValidHandle(m.bumpmap, m_scene.textures)
       /\ ValidHandle(m.Kd, m_scene.textures)
       /\ ValidHandle(m.sigma, m_scene.textures)
       /\ ValidHandle(m.amount, m_scene.textures)
       /\ ValidHandle(m.namedmaterial1, m_scene.materials)
       /\ ValidHandle(m.namedmaterial2, m_scene.materials)
  /\ \A t \in Range(m_scene.textures) :
       /\ ValidHandle(t.tex1, m_scene.textures)
       /\ ValidHandle(t.tex2, m_scene.textures)
  /\ \A f \in Range(m_attrs.attrs) :
       /\ ValidHandle(f.activeMaterial, m_scene.materials)
       /\ ValidHandle(f.areaLight, m_scene.areaLights)
       /\ ValidHandle(f.insideMedium, m_scene.mediums)
       /\ ValidHandle(f.outsideMedium, m_scene.mediums)
       /\ \A h \in Range(f.materials) : h # kInvalidIndex /\ ValidHandle(h, m_scene.materials)
       /\ \A h \in Range(f.floatTextures) \cup Range(f.spectrumTextures) :
            h # kInvalidIndex /\ ValidHandle(h, m_scene.textures)
  /\ ValidHandle(m_activeObject, m_scene.objects)

\* A shape that took the area light of the current frame, and a material
\* or texture that refers to a texture or material by handle.
C8_Witness ==
  /\ pc # "constructed"
  /\ \/ \E s \in Range(m_scene.shapes) :
          s.areaLight # kInvalidIndex /\ s.areaLight = Top(m_attrs).areaLight
     \/ \E m \in Range(m_scene.materials) : m.namedmaterial1 # kInvalidIndex

\* C9: after every successful parse, for every Object (one with no shapes
\* and one whose ObjectEnd is missing included) every position of the
\* half-open range [firstShape, firstShape + numShapes) is a position of
\* the shape vector, and the shape there has object equal to the Object's
\* index.
ShapeRange(obj) == obj.firstShape .. (obj.firstShape + obj.numShapes - 1)

C9_ObjectShapeRanges ==
  (pc = "returned" /\ ret = "true")
    => \A o \in DOMAIN m_scene.objects :
         \A k \in ShapeRange(m_scene.objects[o]) :
           /\ 0 <= k /\ k < Len(m_scene.shapes)
           /\ m_scene.shapes[k + 1].object = o - 1

\* A successful parse that leaves one object with a shape in its range and
\* one object with none, closed empty or left without its ObjectEnd.
C9_Witness ==
  /\ pc = "returned" /\ ret = "true"
  /\ \E o \in DOMAIN m_scene.objects : m_scene.objects[o].numShapes >= 1
  /\ \E o \in DOMAIN m_scene.objects :
       m_scene.objects[o].numShapes = 0 /\ m_scene.objects[o].firstShape = kInvalidIndex

\* C10: the active-object handle is valid exactly between an ObjectBegin and
\* the next successful ObjectEnd: only a successful ObjectBegin makes it
\* valid (the index of the object it adds), only a successful ObjectEnd makes
\* it invalid, and both always do.  ObjectBegin or ObjectInstance while an
\* object is active, and ObjectEnd while none is active, latch an error, fail
\* the parse and add no object, no instance and no stack frame.  A directive
\* succeeds when its handler returns true, so that parse does not return
\* false in that step.
Succeeds == ret' # "false"

NothingAdded ==
  /\ m_scene'.objects = m_scene.objects
  /\ m_scene'.instances = m_scene.instances
  /\ m_attrs'.entry = m_attrs.entry
  /\ m_transforms'.entry = m_transforms.entry

C10_ActiveObject ==
  [][ pc = "parsing" =>
      /\ (m_activeObject = kInvalidIndex /\ m_activeObject' # kInvalidIndex)
           => (/\ m_statementIndex' = StatementIndex("ObjectBegin") /\ Succeeds
               /\ m_activeObject' = Len(m_scene.objects)
               /\ Len(m_scene'.objects) = Len(m_scene.objects) + 1)
      /\ (m_activeObject # kInvalidIndex /\ m_activeObject' # m_activeObject)
           => (/\ m_statementIndex' = StatementIndex("ObjectEnd") /\ Succeeds
               /\ m_activeObject' = kInvalidIndex)
      /\ (m_statementIndex' = StatementIndex("ObjectBegin") /\ Succeeds)
           => (m_activeObject = kInvalidIndex /\ m_activeObject' # kInvalidIndex)
      /\ (m_statementIndex' = StatementIndex("ObjectEnd") /\ Succeeds)
           => (m_activeObject # kInvalidIndex /\ m_activeObject' = kInvalidIndex)
      /\ (/\ m_activeObject # kInvalidIndex
          /\ m_statementIndex' \in {StatementIndex("ObjectBegin"), StatementIndex("ObjectInstance")})
           => (m_error' # NullError /\ ret' = "false" /\ NothingAdded)
      /\ (m_activeObject = kInvalidIndex /\ m_statementIndex' = StatementIndex("ObjectEnd"))
           => (m_error' # NullError /\ ret' = "false" /\ NothingAdded) ]_vars

\* After one object was opened and closed and a second one opened, another
\* ObjectBegin has been refused.
C10_Witness ==
  /\ pc = "returned" /\ ret = "false"
  /\ m_statementIndex = StatementIndex("ObjectBegin")
  /\ m_error.message = "Previous ObjectBegin has not been closed yet"
  /\ Len(m_scene.objects) = 2
  /\ m_activeObject = 1

\* C11: AttributeBegin/AttributeEnd and ObjectBegin/ObjectEnd are properly
\* nested in every sequence that parses: an AttributeEnd that succeeds closes
\* a scope that AttributeBegin opened, an ObjectEnd that succeeds one that
\* ObjectBegin opened, so that AttributeBegin, ObjectBegin, AttributeEnd,
\* ObjectEnd is rejected.
Opener(end) ==
  IF end = StatementIndex("AttributeEnd") THEN StatementIndex("AttributeBegin")
  ELSE StatementIndex("ObjectBegin")

C11_ProperlyNested ==
  [][ (/\ pc = "parsing"
       /\ m_statementIndex' \in ScopeEnds
       /\ ret' # "false")
      => (/\ Len(openers) >= 1
          /\ openers[Len(openers)] = Opener(m_statementIndex')) ]_vars

\* C12: the index of the current entry of the transform stack and of the
\* attribute stack always lies between 0 and the maximum (127 in the source,
\* MaxStackEntry here); the AttributeBegin, ObjectBegin or TransformBegin that
\* would pass the maximum, and the AttributeEnd, ObjectEnd or TransformEnd
\* that would pop the base entry, fail the parse with an error latched.
StackIndexInRange ==
  /\ m_transforms.entry \in 0..MaxStackEntry
  /\ m_attrs.entry \in 0..MaxStackEntry

PushesBoth == {StatementIndex("AttributeBegin"), StatementIndex("ObjectBegin")}

Refused == ret' = "false" /\ m_error' # NullError

C12_StackIndexBounds ==
  /\ []StackIndexInRange
  /\ [][ pc = "parsing" =>
         /\ (/\ m_statementIndex' \in PushesBoth
             /\ (m_transforms.entry = MaxStackEntry \/ m_attrs.entry = MaxStackEntry))
              => Refused
         /\ (/\ m_statementIndex' = StatementIndex("TransformBegin")
             /\ m_transforms.entry = MaxStackEntry)
              => Refused
         /\ (/\ m_statementIndex' \in ScopeEnds
             /\ (m_transforms.entry = 0 \/ m_attrs.entry = 0))
              => Refused
         /\ (/\ m_statementIndex' = StatementIndex("TransformEnd")
             /\ m_transforms.entry = 0)
              => Refused ]_vars

\* AttributeBegin has been refused with both stacks at their maximum.
C12_Witness ==
  /\ pc = "returned" /\ ret = "false"
  /\ m_statementIndex = StatementIndex("AttributeBegin")
  /\ m_transforms.entry = MaxStackEntry
  /\ m_attrs.entry = MaxStackEntry
  /\ m_error.message = "Exceeded maximum transform stack size"

\* The directive an item runs, with its string argument.
ItemRuns(item) ==
  <<item, IF item = "s" THEN <<"x", " ", "y">> ELSE IF item = "Include" THEN <<"f">> ELSE <<>>>>

\* What the items of the file name say runs from item i on, with depth files
\* already pushed: a comment runs nothing, Include runs the whole of the
\* included file before the parent's next item, and fails when the file is
\* absent or the depth is at its maximum.
RECURSIVE Expected(_, _, _, _, _)
Expected(items, name, i, depth, maxIncludeDepth) ==
  IF i > Len(items[name]) THEN [run |-> <<>>, ok |-> TRUE]
  ELSE IF items[name][i].item = "#" THEN Expected(items, name, i + 1, depth, maxIncludeDepth)
  ELSE IF items[name][i].item # "Include"
  THEN The({ [run |-> <<ItemRuns(items[name][i].item)>> \o rest.run, ok |-> rest.ok]
             : rest \in {Expected(items, name, i + 1, depth, maxIncludeDepth)} })
  ELSE IF depth = maxIncludeDepth \/ "f" \notin DOMAIN items THEN [run |-> <<>>, ok |-> FALSE]
  ELSE The({
    IF ~inner.ok THEN [run |-> <<ItemRuns("Include")>> \o inner.run, ok |-> FALSE]
    ELSE The({ [run |-> <<ItemRuns("Include")>> \o inner.run \o rest.run, ok |-> rest.ok]
               : rest \in {Expected(items, name, i + 1, depth, maxIncludeDepth)} })
    : inner \in {Expected(items, "f", 1, depth + 1, maxIncludeDepth)} })

ExpectedRun == Expected(script, "main", 1, 0, m_tokenizer.maxIncludeDepth)

\* No string literal of the files has a blank in it: the only ones are the
\* file names of Include.
PlainStrings == \A n \in DOMAIN script : \A i \in DOMAIN script[n] : script[n][i].item # "s"

\* C13: the directives run in the order of the files with every Include
\* replaced by the directives of the included file: at any moment the
\* directives run so far are an initial part of that order, and a parse that
\* returns true has run all of them, none skipped and none twice.  (Stated
\* for files whose string literals are the file names of Include.)
C13_IncludeResumesParent ==
  PlainStrings =>
    /\ IsPrefix(m_tokenizer.executed, ExpectedRun.run)
    /\ m_tokenizer.phase = "true" => m_tokenizer.executed = ExpectedRun.run

\* C14: the include depth never exceeds the configured maximum; a push_file
\* made at the maximum depth (any push when the maximum is 0) returns false
\* with an error recorded and leaves m_fileData, and with it the parent's
\* saved offset, as it was; a push of an existing file below the maximum adds
\* one file to the stack.
C14_IncludeDepthBounded ==
  /\ Len(m_tokenizer.fileData) <= m_tokenizer.maxIncludeDepth + 1
  /\ \A i \in DOMAIN m_tokenizer.pushes :
       LET push == m_tokenizer.pushes[i] IN
         /\ Len(push.before) - 1 = m_tokenizer.maxIncludeDepth
              => ~push.ok /\ push.after = push.before /\ push.error # ""
         /\ (Len(push.before) - 1 < m_tokenizer.maxIncludeDepth /\ "f" \in DOMAIN m_tokenizer.disk)
              => Len(push.after) = Len(push.before) + 1

\* A chain of as many nested files as the maximum was pushed, and the next
\* push was refused.
C14_Witness ==
  /\ m_tokenizer.maxIncludeDepth = 2
  /\ m_tokenizer.phase = "false"
  /\ m_tokenizer.error = "Maximum include depth exceeded"
  /\ Len(m_tokenizer.fileData) = 3
  /\ Len(m_tokenizer.pushes) = 3

\* The longest run of chars of a file that are not safe to end a buffer on.
RECURSIVE LongestRun(_, _, _)
LongestRun(chars, run, longest) ==
  IF chars = <<>> THEN (IF run > longest THEN run ELSE longest)
  ELSE IF is_safe_buffer_end(Head(chars))
  THEN LongestRun(Tail(chars), 0, IF run > longest THEN run ELSE longest)
  ELSE LongestRun(Tail(chars), run + 1, longest)

\* Every token (the longest is the string literal of s) and every run of
\* chars that are not safe is shorter than the buffer; no file is included.
FitsBuffer ==
  /\ DOMAIN script = {"main"}
  /\ \A i \in DOMAIN script["main"] : script["main"][i].item # "Include"
  /\ Len(ItemChars("s")) - 2 < m_tokenizer.bufCapacity
  /\ LongestRun(m_tokenizer.disk["main"], 0, 0) < m_tokenizer.bufCapacity

\* C15: when every token and every run of chars that are not safe is shorter
\* than the buffer, the directives and string arguments delivered are those
\* of the file, whatever the buffer capacity: no error, no read outside the
\* buffer, and at the end of the parse every token delivered once.
C15_CapacityIndependent ==
  FitsBuffer =>
    /\ ~m_tokenizer.ub
    /\ m_tokenizer.error = ""
    /\ IsPrefix(m_tokenizer.executed, ExpectedRun.run)
    /\ m_tokenizer.phase = "true" => m_tokenizer.executed = ExpectedRun.run

\* The six scene-wide components are set.
ComponentsSet(scene) ==
  /\ scene.camera # "null" /\ scene.film.type # "null" /\ scene.filter # "null"
  /\ scene.integrator.type # "null" /\ scene.sampler # "null" /\ scene.accelerator.type # "null"

\* C16: right after a WorldBegin directive that ran, the transform stack and
\* the attribute stack have one entry each, the current transform is the
\* identity in both time slots, and the six scene-wide components are set:
\* the ones the preamble gave are kept, and a missing camera is the default
\* perspective camera.
C16_WorldBeginResets ==
  [][ (/\ pc = "parsing"
       /\ m_statementIndex' = StatementIndex("WorldBegin")
       /\ ret' # "false")
      => (/\ m_inWorld'
          /\ m_transforms'.entry = 0 /\ m_attrs'.entry = 0
          /\ CurMatrices(m_transforms') = <<IdentityMat, IdentityMat>>
          /\ ComponentsSet(m_scene')
          /\ m_scene'.camera = (IF m_scene.camera = "null" THEN "perspective" ELSE m_scene.camera)
          /\ m_scene'.film = m_scene.film /\ m_scene'.filter = m_scene.filter
          /\ m_scene'.integrator = m_scene.integrator /\ m_scene'.sampler = m_scene.sampler
          /\ m_scene'.accelerator = m_scene.accelerator) ]_vars

\* WorldBegin has run a second time, after a preamble that gave a camera and
\* a world section that pushed a frame and gave it a material.
C16_Witness ==
  /\ m_statementIndex = StatementIndex("WorldBegin") /\ ret # "false" /\ m_inWorld
  /\ statements = 6
  /\ m_scene.camera = "orthographic"
  /\ m_attrs.attrs[2].activeMaterial # kInvalidIndex
  /\ m_transforms.entry = 0 /\ m_attrs.entry = 0

\* C17: the input WorldBegin WorldEnd parses successfully and gives a Scene
\* with a perspective camera, an image film of 640 by 480 called "pbrt.exr",
\* a Halton sampler, a box filter, a path integrator of maxdepth 5, a BVH
\* accelerator with maxnodeprims 4 and the SAH split, and no shapes, lights
\* or materials.
C17_DefaultScene ==
  (/\ pc = "returned" /\ ret = "true" /\ statements = 2
   /\ m_statementIndex = StatementIndex("WorldEnd"))
  => (/\ m_scene.camera = "perspective"
      /\ m_scene.film = [type |-> "image", xresolution |-> 640, yresolution |-> 480,
                         filename |-> "pbrt.exr"]
      /\ m_scene.sampler = "halton"
      /\ m_scene.filter = "box"
      /\ m_scene.integrator = [type |-> "path", maxdepth |-> 5]
      /\ m_scene.accelerator = [type |-> "bvh", maxnodeprims |-> 4, splitmethod |-> "sah"]
      /\ m_scene.shapes = <<>> /\ m_scene.lights = <<>> /\ m_scene.areaLights = <<>>
      /\ m_scene.materials = <<>>)

\* The result of the scenario: one material, and one shape that has it.
OneShapeWithMaterial ==
  /\ Len(m_scene.materials) = 1 /\ Len(m_scene.shapes) = 1
  /\ m_scene.shapes[1].material = 0

\* C18 as stated: MakeNamedMaterial "m1" (matte) in the preamble, WorldBegin,
\* NamedMaterial "m1", Shape "sphere", WorldEnd parses successfully, and gives
\* one material and one shape whose material is 0.
C18_NamedInPreamble ==
  /\ (scenario # <<>> /\ IsPrefix(scenario, NamedInPreamble)) => ret # "false"
  /\ scenario = NamedInPreamble => OneShapeWithMaterial

\* C18 amended: MakeNamedMaterial before WorldBegin is refused as not allowed
\* in the preamble, parse returns false and no material is made; with the
\* MakeNamedMaterial right after WorldBegin the same directives parse
\* successfully and give one material and one shape whose material is 0.
C18_NamedInWorld ==
  /\ scenario = <<<<StatementIndex("MakeNamedMaterial"), 10>>>>
       => (/\ pc = "returned" /\ ret = "false"
           /\ m_error.message = "MakeNamedMaterial is not allowed in the preamble section"
           /\ m_scene.materials = <<>>)
  /\ (scenario # <<>> /\ IsPrefix(scenario, NamedInWorld)) => ret # "false"
  /\ scenario = NamedInWorld => OneShapeWithMaterial

C18_Witness ==
  /\ scenario = NamedInWorld /\ pc = "returned" /\ ret = "true"
  /\ OneShapeWithMaterial

\* The directives that change the current transform, and the matrix each of
\* them makes of the matrix old.
TransformDirectives ==
  {"Identity", "Translate", "Scale", "Rotate", "LookAt", "Transform", "ConcatTransform"}

Updated(name, old) ==
  CASE name = "Identity" -> IdentityMat
    [] name = "Transform" -> <<"m">>
    [] name = "ConcatTransform" -> Append(old, "m")
    [] name = "Translate" -> Append(old, "translate")
    [] name = "Scale" -> Append(old, "scale")
    [] name = "Rotate" -> Append(old, "rotate")
    [] name = "LookAt" -> Append(old, "lookAt")

\* C19: each of Identity, Translate, Scale, Rotate, LookAt, Transform and
\* ConcatTransform updates the matrices of the current stack entry whose time
\* slot is active and leaves the other matrix, and the rest of the stack, as
\* they are: the start matrix only after ActiveTransform StartTime, the end
\* matrix only after EndTime, both after All.
C19_ActiveTransformGates ==
  [][ \A name \in TransformDirectives :
        (/\ pc = "parsing"
         /\ m_statementIndex' = StatementIndex(name)
         /\ ret' # "false")
        => m_transforms' =
             [m_transforms EXCEPT !.matrices[m_transforms.entry + 1] =
                <<IF m_transforms.active[1] THEN Updated(name, @[1]) ELSE @[1],
                  IF m_transforms.active[2] THEN Updated(name, @[2]) ELSE @[2]>>] ]_vars

\* After ActiveTransform StartTime a directive has changed the start matrix
\* of the current entry and not its end matrix.
C19_Witness ==
  /\ \E name \in TransformDirectives : m_statementIndex = StatementIndex(name)
  /\ ret # "false"
  /\ m_transforms.active = <<TRUE, FALSE>>
  /\ CurMatrices(m_transforms)[1] # IdentityMat
  /\ CurMatrices(m_transforms)[2] = IdentityMat
\* C20: a Shape whose parameters override the active material appends exactly
\* one material, unnamed, and only the new shape holds its index: the earlier
\* shapes and the attribute stack (each frame's activeMaterial and materials
\* list) are as before, no name finds the new material, and a Shape that
\* overrides nothing takes the active material of the current frame.
C20_ShapeOverrideMaterial ==
  [][Len(m_scene'.shapes) = Len(m_scene.shapes) + 1 =>
       /\ m_attrs' = m_attrs
       /\ SubSeq(m_scene'.shapes, 1, Len(m_scene.shapes)) = m_scene.shapes
       /\ IF m_scene'.materials # m_scene.materials
          THEN /\ Top(m_attrs).activeMaterial # kInvalidIndex
               /\ Len(m_scene'.materials) = Len(m_scene.materials) + 1
               /\ SubSeq(m_scene'.materials, 1, Len(m_scene.materials)) = m_scene.materials
               /\ m_scene'.materials[Len(m_scene'.materials)].name = ""
               /\ m_scene'.shapes[Len(m_scene'.shapes)].material = Len(m_scene.materials)
               /\ \A i \in 1..Len(m_attrs'.attrs) :
                    /\ m_attrs'.attrs[i].activeMaterial # Len(m_scene.materials)
                    /\ \A k \in 1..Len(m_attrs'.attrs[i].materials) :
                         m_attrs'.attrs[i].materials[k] # Len(m_scene.materials)
               /\ \A n \in Names :
                    FindInFrames(m_attrs', m_attrs'.entry, "materials", m_scene'.materials, n, FALSE)
                      # Len(m_scene.materials)
          ELSE m_scene'.shapes[Len(m_scene'.shapes)].material = Top(m_attrs).activeMaterial
    ]_vars

\* A shape made with an override holds the unnamed material 1, and the shape
\* made after it in the same scope holds the active material 0.
C20_Witness ==
  /\ ret # "false"
  /\ Len(m_scene.materials) = 2 /\ m_scene.materials[2].name = ""
  /\ Len(m_scene.shapes) = 2
  /\ m_scene.shapes[1].material = 1
  /\ m_scene.shapes[2].material = 0
  /\ Top(m_attrs).activeMaterial = 0
  /\ m_attrs.entry = 0
\* The index of the most recently created medium named name, kInvalidIndex
\* when name is empty or no medium has the name.
NewestMedium(name) ==
  IF name = "" \/ \A i \in 1..Len(m_scene.mediums) : m_scene.mediums[i].name # name
  THEN kInvalidIndex
  ELSE (CHOOSE i \in 1..Len(m_scene.mediums) :
          /\ m_scene.mediums[i].name = name
          /\ \A k \in (i + 1)..Len(m_scene.mediums) : m_scene.mediums[k].name # name) - 1

\* The attribute stack after the statement MediumInterface "inside" "outside"
\* is parsed in the current state.
AfterMediumInterface(inside, outside) ==
  parse_loop(ParserState(<<W("MediumInterface")>> \o Str(inside) \o Str(outside) \o <<EOF>>, <<>>),
             <<>>).P.attrs

\* C21: in every state of the parse, preamble or world section, the
\* statement MediumInterface "a" "b" leaves in the current attribute frame
\* insideMedium = the newest medium named a and outsideMedium = the newest
\* medium named b (kInvalidIndex for an empty or unknown name).
C21_MediumInterface ==
  pc = "parsing" =>
    \A inside \in Names \cup {""}, outside \in Names \cup {""} :
      /\ Top(AfterMediumInterface(inside, outside)).insideMedium = NewestMedium(inside)
      /\ Top(AfterMediumInterface(inside, outside)).outsideMedium = NewestMedium(outside)

\* The materials of the scene after the statement Material "matte" with the
\* parameters body is parsed in the current state.
AfterMaterial(body) ==
  parse_loop(ParserState(<<W("Material")>> \o Str("matte") \o body \o <<EOF>>, <<>>),
             <<>>).P.scene.materials

\* The texture that the name n resolves to in the current state.
Resolved(n, dataType) == find_texture(ParserState(<<>>, <<>>), n, dataType)

\* The two forms of the parameters Kd and sigma.
TexturedKd(n) == Decl("texture", "Kd") \o Str(n)
ValueKd == Decl("rgb", "Kd") \o <<LB, NUM, NUM, NUM, RB>>
TexturedSigma(n) == Decl("texture", "sigma") \o Str(n)
ValueSigma == Decl("float", "sigma") \o <<NUM>>

\* C22: when a Material gives a parameter both as a texture and as a value,
\* in either order, and the texture name resolves, the ColorTex (Kd) or
\* FloatTex (sigma) of the material made has the resolved texture.
C22_TexturedFormWins ==
  (pc = "parsing" /\ m_inWorld) =>
    \A n \in Names :
      /\ Resolved(n, "Spectrum") # kInvalidIndex =>
            \A body \in {TexturedKd(n) \o ValueKd, ValueKd \o TexturedKd(n)} :
              /\ Len(AfterMaterial(body)) = Len(m_scene.materials) + 1
              /\ AfterMaterial(body)[Len(m_scene.materials) + 1].Kd = Resolved(n, "Spectrum")
      /\ Resolved(n, "Float") # kInvalidIndex =>
            \A body \in {TexturedSigma(n) \o ValueSigma, ValueSigma \o TexturedSigma(n)} :
              /\ Len(AfterMaterial(body)) = Len(m_scene.materials) + 1
              /\ AfterMaterial(body)[Len(m_scene.materials) + 1].sigma = Resolved(n, "Float")

\* The holders of the Scene: the pointers to it that are not null.
Owners == {h \in {"m_scene", "parser", "caller"} : m_loader[h] # "null"}

\* C23: the Scene has exactly one owner while the Loader lives, and after
\* the Loader is destroyed it is either with the caller and not freed or
\* freed exactly once.  After a successful load the Loader holds it and
\* borrow_scene returns it until the first take_scene, which returns it and
\* hands it to the caller; every later take_scene and borrow_scene returns
\* null and the destructor frees nothing.  After a failed load take_scene
\* and borrow_scene return null and the destructor frees the Scene once,
\* through the Parser.
C23_OneOwner ==
  /\ m_loader.alive => Cardinality(Owners) = 1 /\ m_loader.freed = <<>>
  /\ ~m_loader.alive =>
        IF m_loader.caller # "null" THEN m_loader.freed = <<>> ELSE Len(m_loader.freed) = 1
  /\ (pc = "returned" /\ ret = "true" /\ m_loader.alive) =>
        /\ Owners = (IF m_loader.result = <<"take_scene", "scene">> \/ m_loader.caller # "null"
                     THEN {"caller"} ELSE {"m_scene"})
        /\ m_loader.result[1] = "borrow_scene" =>
              m_loader.result[2] = (IF m_loader.caller = "null" THEN "scene" ELSE "null")
        /\ m_loader.result[1] = "take_scene" =>
              /\ m_loader.caller = "scene"
              /\ m_loader.result[2] = "scene" \/ m_loader.takes >= 2
  /\ (pc = "returned" /\ ret = "true" /\ ~m_loader.alive /\ m_loader.caller # "null") =>
        m_loader.freed = <<>>
  /\ (pc = "returned" /\ ret = "false") =>
        /\ m_loader.result[2] = "null"
        /\ m_loader.caller = "null"
        /\ m_loader.alive => Owners = {"parser"}
        /\ ~m_loader.alive => m_loader.freed = <<"Parser">>

\* The second take_scene after a successful load returned null, the caller
\* holds the Scene, and the Loader was destroyed without freeing it.
C23_Witness ==
  /\ pc = "returned" /\ ret = "true" /\ Len(m_scene.shapes) = 1
  /\ m_loader.takes = 2 /\ m_loader.result = <<"take_scene", "null">>
  /\ m_loader.caller = "scene" /\ ~m_loader.alive /\ m_loader.freed = <<>>

\* C24: of two threads that start to parse with the tables not initialised,
\* only one allocates and fills them, and neither reads an entry of a table
\* before that entry is written.
C24_InitialisedOnce ==
  /\ Cardinality(xyz.initialised) <= 1
  /\ Len(xyz.arrays) <= 3
  /\ ~xyz.unwritten

\* The file offset of the byte at the start of m_buf: the read position of
\* the file less the chars the last refill_buffer left in the buffer, which
\* fill it unless the file ended.
BufferStart(t) ==
  t.fileData[Len(t.fileData)].f
    - (IF t.fileData[Len(t.fileData)].atEOF THEN t.bufEnd ELSE t.bufCapacity)

\* C25: once a file is open, the bufOffset of the current file is the file
\* offset of the byte at the start of the buffer, after every refill_buffer.
C25_BufOffsetExact ==
  (m_tokenizer.fileData # <<>> /\ ~m_tokenizer.ub) =>
    m_tokenizer.fileData[Len(m_tokenizer.fileData)].bufOffset = BufferStart(m_tokenizer)
\* The face has n >= 3 indices, all of them valid.
ValidPolygon(face) ==
  Len(face) >= 3 /\ \A i \in 1..Len(face) : face[i] >= 0 /\ face[i] < NumVerts

\* C26: for a polygon of n >= 3 valid vertices triangulate_polygon writes
\* n - 2 triangles and returns n - 2, so the cursor of extract_triangles
\* moves past all of them.
C26_TrianglesCounted ==
  \A c \in 1..Len(trimesh.calls) :
    ValidPolygon(trimesh.calls[c].face) =>
      /\ trimesh.calls[c].wrote = Len(trimesh.calls[c].face) - 2
      /\ trimesh.calls[c].ret = Len(trimesh.calls[c].face) - 2
      /\ (IF c < Len(trimesh.calls) THEN trimesh.calls[c + 1].to ELSE trimesh.to)
           = trimesh.calls[c].to + 3 * (Len(trimesh.calls[c].face) - 2)

\* C29: the mesh that triangle_mesh returns has a number of indices
\* divisible by three, each index at least 0 and less than num_vertices.
C29_IndicesInRange ==
  trimesh.phase = "done" =>
    /\ trimesh.num_indices % 3 = 0
    /\ Len(trimesh.indices) = trimesh.num_indices
    /\ \A i \in 1..Len(trimesh.indices) :
         trimesh.indices[i] >= 0 /\ trimesh.indices[i] < trimesh.num_vertices

\* The file offset of the first char of the element the reader is on.
StartOfElement(r) == ElementStart(r.fileType, r.elements, r.currentElement)

\* The step is a load_element() of a reader that stands at the first char of
\* the element it is on.
Loads == m_reader.ret = "none" /\ m_reader'.ret # "none"
           /\ ReaderPos(m_reader) = StartOfElement(m_reader)

\* C27: when a row of a list property has a negative count, in an ASCII, a
\* binary or a big-endian binary file, load_element() returns false and the
\* reader is invalid afterwards, so that triangle_mesh gets no faces from it.
C27_NegativeCountFails ==
  [][(Loads /\ NegativeCount(PLYReader_element(m_reader))) =>
       (m_reader'.ret = "false" /\ ~m_reader'.valid /\ ~GotFaces(m_reader'))]_vars

\* The step is a next_element() over an element that was not loaded and has no
\* negative count, with another element behind it, by a reader that stands at
\* the first char of the element.
Skips == /\ PLYReader_has_element(m_reader)
         /\ ~m_reader.elementLoaded
         /\ m_reader.ret = "none"
         /\ m_reader'.currentElement = m_reader.currentElement + 1
         /\ m_reader'.currentElement < Len(m_reader.elements)
         /\ ~NegativeCount(PLYReader_element(m_reader))
         /\ ReaderPos(m_reader) = StartOfElement(m_reader)

\* C28: next_element() over an element that was not loaded leaves the reader
\* valid and at the first char of the next element, where load_element()
\* followed by next_element() leaves it.
C28_SkipIsLoad ==
  [][Skips => /\ m_reader'.valid
              /\ ReaderPos(m_reader') = StartOfElement(m_reader')
              /\ ReaderPos(PLYReader_next_element(PLYReader_load_element(m_reader).r))
                   = ReaderPos(m_reader')]_vars

\* C30: int_literal returns false for every literal whose value lies outside
\* the range of a 32-bit signed int, and the int it stores for a literal it
\* accepts is the value of the literal.
C30_OverflowRejected ==
  literal.at = "done" =>
    /\ ~InIntRange(literal.sign, literal.digits) => ~literal.ret
    /\ literal.ret =>
         literal.val = (IF literal.sign = "-" THEN ToInt(Negated(Magnitude(literal.digits, Len(literal.digits))))
                        ELSE ToInt(Magnitude(literal.digits, Len(literal.digits))))
         /\ InIntRange(literal.sign, literal.digits)

====
